---- MODULE Spec2Model ----
(***************************************************************************)
(* A model of the Exostra window manager (src/include/exostra.h): the Rect *)
(* algebra, the WindowContainer z-order registry, the Window message state *)
(* machine and the WindowManager hit tester and compositor.                *)
(*                                                                         *)
(* The model follows the build without EWM_ENABLE_ASSERTIONS (EWM_ASSERT   *)
(* expands to nothing, exostra.h:104) and with EWM_NOMUTEXES semantics: a  *)
(* single cooperative thread, so every handler is one atomic action.       *)
(***************************************************************************)
EXTENDS Integers, Sequences, FiniteSets, TLC

\* ------------------------------------------------------------------ bounds
\* Largest coordinate of the rectangles the geometry specification draws.
MaxGeoCoord == 2

\* ------------------------------------------------------------- fixed widths
\* Coord is int16_t, Extent is uint16_t (exostra.h:226, 229).
TwoTo16 == 65536
TwoTo15 == 32768

ToExtent(v) == v % TwoTo16

ToCoord(v) ==
    LET m == v % TwoTo16
    IN  IF m >= TwoTo15 THEN m - TwoTo16 ELSE m

min(a, b) == IF a < b THEN a ELSE b
max(a, b) == IF a > b THEN a ELSE b

\* ------------------------------------------------------------------- Rect
\* Rect(Coord l, Coord t, Extent r, Extent b): right and bottom pass through
\* uint16_t before they are stored in the int16_t fields.
Rect(l, t, r, b) ==
    [left |-> ToCoord(l), top |-> ToCoord(t),
     right |-> ToCoord(ToExtent(r)), bottom |-> ToCoord(ToExtent(b))]

\* Rect(): all four fields 0.
ZeroRect == [left |-> 0, top |-> 0, right |-> 0, bottom |-> 0]

width(r) == ToExtent(r.right - r.left)
height(r) == ToExtent(r.bottom - r.top)
empty(r) == width(r) = 0 \/ height(r) = 0

pointWithin(r, x, y) ==
    x >= r.left /\ x <= r.right /\ y >= r.top /\ y <= r.bottom

\* overlapsRect without its third test (one rectangle containing the other).
overlapsRectEdgesOnly(r, other) ==
    \/ /\ \/ (r.top >= other.top /\ r.top <= other.bottom)
          \/ (r.bottom <= other.bottom /\ r.bottom >= other.top)
       /\ \/ (r.left <= other.left /\ r.right >= other.left)
          \/ (r.right >= other.right /\ r.left <= other.right)
    \/ /\ \/ (r.left >= other.left /\ r.left <= other.right)
          \/ (r.right <= other.right /\ r.right >= other.left)
       /\ \/ (r.top <= other.top /\ r.bottom >= other.top)
          \/ (r.bottom >= other.bottom /\ r.top <= other.bottom)

overlapsRect(r, other) ==
    \/ /\ \/ (r.top >= other.top /\ r.top <= other.bottom)
          \/ (r.bottom <= other.bottom /\ r.bottom >= other.top)
       /\ \/ (r.left <= other.left /\ r.right >= other.left)
          \/ (r.right >= other.right /\ r.left <= other.right)
    \/ /\ \/ (r.left >= other.left /\ r.left <= other.right)
          \/ (r.right <= other.right /\ r.right >= other.left)
       /\ \/ (r.top <= other.top /\ r.bottom >= other.top)
          \/ (r.bottom >= other.bottom /\ r.top <= other.bottom)
    \/ (r.left <= other.left /\ r.top <= other.top /\
        r.right >= other.right /\ r.bottom >= other.bottom)
    \/ (r.left >= other.left /\ r.top >= other.top /\
        r.right <= other.right /\ r.bottom <= other.bottom)

intersectsRect(r, other) == overlapsRect(r, other) \/ overlapsRect(other, r)

getIntersection(r, other) ==
    IF intersectsRect(r, other)
    THEN Rect(max(r.left, other.left), max(r.top, other.top),
              min(r.right, other.right), min(r.bottom, other.bottom))
    ELSE ZeroRect

mergeRect(r, rect) ==
    [left |-> min(r.left, rect.left), top |-> min(r.top, rect.top),
     right |-> max(r.right, rect.right), bottom |-> max(r.bottom, rect.bottom)]

\* The std::queue<Rect> of emitted rectangles as a sequence, in emission order.
\* sideBlock is the "alignedLeft || alignedRight" branch, levelBlock the
\* "alignedTop || alignedBottom" branch, frameBlock the four-unaligned branch.
subtractRect(r, other) ==
    LET mergedRect == mergeRect(r, other)
        alignedLeft == mergedRect.left >= other.left
        alignedTop == mergedRect.top >= other.top
        alignedRight == mergedRect.right <= other.right
        alignedBottom == mergedRect.bottom <= other.bottom
        topNoAlignTop == max(mergedRect.top, r.top)
        topNoAlignBottom == min(mergedRect.bottom, other.bottom)
        bottomNoAlignTop == min(mergedRect.bottom, other.top)
        bottomNoAlignBottom == min(mergedRect.bottom, r.bottom)
        leftNoAlignRight == min(mergedRect.right, other.right)
        leftNoAlignLeft == max(mergedRect.left, r.left)
        rightNoAlignRight == min(mergedRect.right, r.right)
        rightNoAlignLeft == max(mergedRect.left, other.left)
        spanTop == max(mergedRect.top, r.top)
        spanBottom == min(mergedRect.bottom, r.bottom)
        spanLeft == max(mergedRect.left, r.left)
        spanRight == min(mergedRect.right, r.right)
        rightStrip == Rect(leftNoAlignRight, spanTop, rightNoAlignRight, spanBottom)
        leftStrip == Rect(leftNoAlignLeft, spanTop, rightNoAlignLeft, spanBottom)
        topStrip == Rect(spanLeft, topNoAlignTop, spanRight, bottomNoAlignTop)
        bottomStrip == Rect(spanLeft, topNoAlignBottom, spanRight, bottomNoAlignBottom)
        sideBlock ==
            IF alignedLeft \/ alignedRight
            THEN (IF alignedLeft /\ ~alignedRight THEN <<rightStrip>> ELSE <<>>)
                 \o (IF alignedRight /\ ~alignedLeft THEN <<leftStrip>> ELSE <<>>)
                 \o (IF ~alignedTop /\ ~alignedBottom
                     THEN <<topStrip, bottomStrip>> ELSE <<>>)
            ELSE <<>>
        levelBlock ==
            IF alignedTop \/ alignedBottom
            THEN (IF alignedTop /\ ~alignedBottom THEN <<bottomStrip>> ELSE <<>>)
                 \o (IF alignedBottom /\ ~alignedTop THEN <<topStrip>> ELSE <<>>)
                 \o (IF ~alignedLeft /\ ~alignedRight
                     THEN <<rightStrip, leftStrip>> ELSE <<>>)
            ELSE <<>>
        edge1 == Rect(min(other.left, r.left), min(other.top, r.top),
                      max(other.left, r.left), max(other.bottom, r.bottom))
        edge2 == [edge1 EXCEPT !.right = max(other.right, r.right),
                               !.bottom = max(other.top, r.top)]
        edge3 == [edge2 EXCEPT !.left = min(other.right, r.right),
                               !.top = min(other.top, r.top),
                               !.bottom = max(other.bottom, r.bottom)]
        edge4 == [edge3 EXCEPT !.left = min(other.left, r.left),
                               !.top = min(other.bottom, r.bottom)]
        frameBlock ==
            IF ~alignedLeft /\ ~alignedTop /\ ~alignedRight /\ ~alignedBottom
            THEN <<edge1, edge2, edge3, edge4>>
            ELSE <<>>
    IN  IF intersectsRect(r, other)
           /\ (~alignedLeft \/ ~alignedTop \/ ~alignedRight \/ ~alignedBottom)
        THEN sideBlock \o levelBlock \o frameBlock
        ELSE <<>>

outsideRect(r, other) ==
    /\ ~pointWithin(other, r.left, r.top)
    /\ ~pointWithin(other, r.right, r.top)
    /\ ~pointWithin(other, r.left, r.bottom)
    /\ ~pointWithin(other, r.right, r.bottom)

withinRect(r, other) ==
    /\ pointWithin(other, r.left, r.top)
    /\ pointWithin(other, r.right, r.top)
    /\ pointWithin(other, r.left, r.bottom)
    /\ pointWithin(other, r.right, r.bottom)

\* ============================================================ window model
\* ------------------------------------------------------ bounds of the model
MaxWin == 3         \* Window objects that createWindow may construct
DisplayWidth == 2   \* _gfxDisplay->width()
DisplayHeight == 2  \* _gfxDisplay->height()
MaxTime == 2        \* millis() stops advancing here
MaxTaps == 2        \* hitTest calls made by the tapping thread
MaxQueue == 2       \* hitTest is not offered once this many messages are pending

Slots == 1..MaxWin

\* ------------------------------------------------------- program constants
WID_INVALID == 0
INPUT_TAP == 1
EVT_CHILD_TAPPED == 1
LabelID == 1
TwoTo8 == 256

\* Style and State are bitmasks; a mask is modelled as the set of its bits.
STY_VISIBLE == {"bit0"}
STY_CHILD == {"bit1"}
STY_FRAME == {"bit2"}
STY_SHADOW == {"bit3"}
STY_TOPLEVEL == {"bit4"} \cup STY_FRAME \cup STY_SHADOW
STY_AUTOSIZE == {"bit5"}
STY_FULLSCREEN == {"bit6"}
STY_BUTTON == {"bit7"}
STY_LABEL == {"bit8"}
STY_PROMPT == {"bit9"} \cup STY_TOPLEVEL

PBR_NORMAL == {"bit0"}
PBR_INDETERMINATE == {"bit1"}

STA_ALIVE == {"bit0"}
STA_CHECKED == {"bit1"}
STA_DIRTY == {"bit2"}

WMS_SSAVER_ENABLED == {"bit0"}
WMS_SSAVER_ACTIVE == {"bit1"}
WMS_SSAVER_DRAWN == {"bit2"}

bitsHigh(bitmask, bits) == bits \subseteq bitmask

\* DefaultTheme::getMetric for the model's display, which is a small one
\* (getScaledValue(v) = v); the float products are cut to whole pixels.
METRIC_X_PADDING == (DisplayWidth * 5) \div 100
METRIC_Y_PADDING == (DisplayHeight * 5) \div 100
METRIC_DEF_BUTTON_CX == max((DisplayWidth * 19) \div 100, 60)
METRIC_DEF_BUTTON_CY == (METRIC_DEF_BUTTON_CX * 52) \div 100
METRIC_BUTTON_LABEL_PADDING == 10
METRIC_MAX_PROMPT_CX == (DisplayWidth * 75) \div 100
METRIC_MAX_PROMPT_CY == (DisplayHeight * 75) \div 100

\* The width getTextBounds reports for a button's text: the texts of the
\* model are empty.
TextWidth == 0

makeMsgParam(hiWord, loWord) == (hiWord % TwoTo16) * TwoTo16 + (loWord % TwoTo16)
getMsgParamHiWord(msgParam) == (msgParam \div TwoTo16) % TwoTo16
getMsgParamLoWord(msgParam) == msgParam % TwoTo16

\* A slot no Window object lives in. Besides the fields of Window a slot keeps
\* one history flag: destroyed tells that the window was handed MSG_DESTROY.
NoWindow ==
    [used |-> FALSE, kind |-> "none", parent |-> 0, id |-> WID_INVALID,
     style |-> {}, state |-> {}, rect |-> ZeroRect, dirtyRect |-> ZeroRect,
     zOrder |-> 0, queue |-> <<>>, children |-> <<>>, destroyed |-> FALSE,
     barStyle |-> {}]

\* The operators below work on a world s = [win, reg, r, log]: the Window
\* objects by slot, the manager's _registry, the return value of the last
\* call, and the handlers and callbacks invoked so far in the running call.
\* A container handle c is 0 for the registry and w for Window w's _children.
getDisplayRect == Rect(0, 0, DisplayWidth, DisplayHeight)

getChildren(s, c) == IF c = 0 THEN s.reg ELSE s.win[c].children

setChildren(s, c, kids) ==
    IF c = 0 THEN [s EXCEPT !.reg = kids] ELSE [s EXCEPT !.win[c].children = kids]

\* ------------------------------------------------------- WindowContainer
\* The slot of the first child with this id, 0 for nullptr.
getChildByID(s, c, id) ==
    LET kids == getChildren(s, c)
        hits == {i \in DOMAIN kids : s.win[kids[i]].id = id}
    IN  IF hits = {} THEN 0
        ELSE kids[CHOOSE i \in hits : \A j \in hits : i <= j]

\* recalculateZOrder that numbers from 1.
recalculateZOrderFromOne(s, c) ==
    LET kids == getChildren(s, c)
    IN  [s EXCEPT !.win = [w \in Slots |->
            IF \E i \in DOMAIN kids : kids[i] = w
            THEN [s.win[w] EXCEPT !.zOrder =
                    (CHOOSE i \in DOMAIN kids : kids[i] = w) % TwoTo8]
            ELSE s.win[w]]]

recalculateZOrder(s, c) ==
    LET kids == getChildren(s, c)
    IN  [s EXCEPT !.win = [w \in Slots |->
            IF \E i \in DOMAIN kids : kids[i] = w
            THEN [s.win[w] EXCEPT !.zOrder =
                    ((CHOOSE i \in DOMAIN kids :
                        kids[i] = w /\ \A j \in DOMAIN kids : kids[j] = w => j <= i) - 1)
                    % TwoTo8]
            ELSE s.win[w]]]

\* The sequence without its element at position i.
eraseAt(kids, i) == [j \in 1..(Len(kids) - 1) |-> IF j < i THEN kids[j] ELSE kids[j + 1]]

\* WindowContainer::setForegroundWindow: the first child with win's id is
\* erased and win is pushed to the back.
setForegroundWindow(s, c, w) ==
    LET kids == getChildren(s, c)
        hits == {i \in DOMAIN kids : s.win[kids[i]].id = s.win[w].id}
    IN  IF s.win[w].parent = 0 /\ bitsHigh(s.win[w].style, STY_TOPLEVEL) /\ hits # {}
        THEN LET i == CHOOSE i \in hits : \A j \in hits : i <= j
                 moved == setChildren(s, c, Append(eraseAt(kids, i), w))
             IN  [recalculateZOrder(moved, c) EXCEPT !.r = TRUE]
        ELSE [s EXCEPT !.r = FALSE]

\* addChild that does not look for a child with the same id.
addChildAnyId(s, c, child) ==
    LET kids == getChildren(s, c)
        zOrder == IF kids = <<>> THEN 0
                  ELSE (s.win[kids[Len(kids)]].zOrder + 1) % TwoTo8
        placed == [s EXCEPT !.win[child].zOrder = zOrder]
    IN  [setChildren(placed, c, Append(kids, child)) EXCEPT !.r = TRUE]

addChild(s, c, child) ==
    IF getChildByID(s, c, s.win[child].id) # 0
    THEN [s EXCEPT !.r = FALSE]
    ELSE LET kids == getChildren(s, c)
             zOrder == IF kids = <<>> THEN 0
                       ELSE (s.win[kids[Len(kids)]].zOrder + 1) % TwoTo8
             placed == [s EXCEPT !.win[child].zOrder = zOrder]
         IN  [setChildren(placed, c, Append(kids, child)) EXCEPT !.r = TRUE]

removeChildByID(s, c, id) ==
    LET kids == getChildren(s, c)
        hits == {i \in DOMAIN kids : s.win[kids[i]].id = id}
    IN  IF hits = {} THEN [s EXCEPT !.r = FALSE]
        ELSE LET i == CHOOSE i \in hits : \A j \in hits : i <= j
             IN  [recalculateZOrder(setChildren(s, c, eraseAt(kids, i)), c)
                    EXCEPT !.r = TRUE]

removeAllChildren(s, c) == setChildren(s, c, <<>>)

\* ----------------------------------------------------------------- Window
isVisible(s, w) == bitsHigh(s.win[w].style, STY_VISIBLE) /\ ~empty(s.win[w].rect)

isAlive(s, w) == bitsHigh(s.win[w].state, STA_ALIVE)

isDirty(s, w) == bitsHigh(s.win[w].state, STA_DIRTY)

\* isDrawable that does not ask the parent.
isDrawableOwnFlagsOnly(s, w) ==
    /\ isVisible(s, w)
    /\ isAlive(s, w)
    /\ ~outsideRect(s.win[w].rect, getDisplayRect)

RECURSIVE isDrawable(_, _)
\* isDrawable that does not ask whether the window is alive.
isDrawableNotAskingAlive(s, w) ==
    /\ isVisible(s, w)
    /\ (s.win[w].parent = 0 \/ isDrawable(s, s.win[w].parent))
    /\ ~outsideRect(s.win[w].rect, getDisplayRect)

isDrawable(s, w) ==
    /\ isVisible(s, w)
    /\ isAlive(s, w)
    /\ (s.win[w].parent = 0 \/ isDrawable(s, s.win[w].parent))
    /\ ~outsideRect(s.win[w].rect, getDisplayRect)

RECURSIVE markRectDirty(_, _, _)
RECURSIVE markRectDirtyChildren(_, _, _)

\* The forEachChild loop of markRectDirty(Rect()).
markRectDirtyChildren(s, kids, i) ==
    IF i > Len(kids) THEN s
    ELSE markRectDirtyChildren(markRectDirty(s, kids[i], ZeroRect), kids, i + 1)

markRectDirty(s, w, rect) ==
    IF ~empty(rect)
    THEN LET windowRect == s.win[w].rect
             left(d) == IF rect.left >= windowRect.left /\ (rect.left < d.left \/ d.left = 0)
                        THEN [d EXCEPT !.left = rect.left] ELSE d
             top(d) == IF rect.top >= windowRect.top /\ (rect.top < d.top \/ d.top = 0)
                       THEN [d EXCEPT !.top = rect.top] ELSE d
             right(d) == IF rect.right <= windowRect.right /\ rect.right > d.right
                         THEN [d EXCEPT !.right = rect.right] ELSE d
             bottom(d) == IF rect.bottom <= windowRect.bottom /\ rect.bottom > d.bottom
                          THEN [d EXCEPT !.bottom = rect.bottom] ELSE d
         IN  [s EXCEPT !.win[w].dirtyRect = bottom(right(top(left(@))))]
    ELSE markRectDirtyChildren([s EXCEPT !.win[w].dirtyRect = ZeroRect],
                               s.win[w].children, 1)

RECURSIVE setDirtyRectLoop(_, _, _)
\* The forEachChild loop of WindowManager::setDirtyRect over the registry.
setDirtyRectLoop(s, rect, i) ==
    IF i > Len(s.reg) THEN s
    ELSE LET w == s.reg[i]
         IN  IF ~isDrawable(s, w) THEN setDirtyRectLoop(s, rect, i + 1)
             ELSE IF intersectsRect(s.win[w].rect, rect)
             THEN setDirtyRectLoop(
                      markRectDirty(s, w, getIntersection(s.win[w].rect, rect)),
                      rect, i + 1)
             ELSE setDirtyRectLoop(s, rect, i + 1)

setDirtyRect(s, rect) == setDirtyRectLoop(s, rect, 1)

RECURSIVE routeMessage(_, _, _, _, _)
RECURSIVE setDirty(_, _, _, _)
RECURSIVE setRect(_, _, _)
RECURSIVE hide(_, _)
RECURSIVE createWindow(_, _, _, _, _, _, _, _, _, _, _)
RECURSIVE redraw(_, _, _)
RECURSIVE redrawChildrenLoop(_, _, _, _, _)
RECURSIVE redrawMarkChildren(_, _, _)

\* queueMessage: the message is pushed, and the call reports whether it was a tap.
queueMessage(s, w, msg, p1, p2) ==
    [s EXCEPT !.win[w].queue = Append(@, [msg |-> msg, p1 |-> p1, p2 |-> p2]),
              !.r = (msg = "MSG_INPUT" /\ getMsgParamLoWord(p1) = INPUT_TAP)]

\* setBgColor, setCornerRadius and the like with a value that differs from
\* the current one: the value is stored and setDirty(true) is called.
setAppearance(s, w) == setDirty(s, w, TRUE, TRUE)

RECURSIVE layoutButtons(_, _, _, _, _, _, _)
\* The second forEachChild loop of Prompt::onCreate from position i on:
\* first is the flag of the same name, numButtons the count of the first
\* loop, rectLbl the label's rect.
layoutButtons(s, w, kids, i, first, numButtons, rectLbl) ==
    LET rect == s.win[w].rect
        top == ToCoord(rectLbl.bottom + METRIC_Y_PADDING)
        placed(rectBtn, left, right) ==
            [rectBtn EXCEPT !.top = top,
                            !.bottom = ToCoord(top + METRIC_DEF_BUTTON_CY),
                            !.left = left, !.right = right]
        next(a) == layoutButtons(a, w, kids, i + 1, FALSE, numButtons, rectLbl)
        firstLeft == IF numButtons = 1
                     THEN ToCoord(rect.left + (width(rect) \div 2)
                                  - (width(s.win[kids[i]].rect) \div 2))
                     ELSE ToCoord(rect.left + METRIC_X_PADDING)
        lastRight == ToCoord(rect.right - METRIC_X_PADDING)
    IN  IF i > Len(kids) THEN s
        ELSE IF ~bitsHigh(s.win[kids[i]].style, STY_BUTTON)
        THEN layoutButtons(s, w, kids, i + 1, first, numButtons, rectLbl)
        ELSE IF first /\ numButtons \notin {1, 2} THEN s
        ELSE IF first
        THEN next(setRect(s, kids[i],
                 placed(s.win[kids[i]].rect, firstLeft,
                        ToCoord(firstLeft + width(s.win[kids[i]].rect)))))
        ELSE next(setRect(s, kids[i],
                 placed(s.win[kids[i]].rect,
                        ToCoord(lastRight - width(s.win[kids[i]].rect)), lastRight)))

\* Prompt::onCreate: the prompt takes its colours, creates its label as the
\* child LabelID and lays out the buttons the pre-creation hook attached.
Prompt_onCreate(s, w) ==
    LET rect == s.win[w].rect
        buttons(a) == Cardinality({i \in DOMAIN a.win[w].children :
                          bitsHigh(a.win[a.win[w].children[i]].style, STY_BUTTON)})
        laidOut(a, rectLbl) ==
            [layoutButtons(a, w, a.win[w].children, 1, TRUE, buttons(a), rectLbl)
                EXCEPT !.r = TRUE]
        labelled(a) == IF a.r = 0 THEN [a EXCEPT !.r = FALSE]
                       ELSE laidOut(setAppearance(a, a.r), a.win[a.r].rect)
    IN  labelled(createWindow(setAppearance(s, w), "MultilineLabel", w, LabelID,
                     STY_CHILD \cup STY_VISIBLE \cup STY_LABEL,
                     ToCoord(rect.left + METRIC_X_PADDING),
                     ToCoord(rect.top + METRIC_Y_PADDING),
                     ToExtent(width(rect) - (METRIC_X_PADDING * 2)),
                     ToExtent(height(rect) - ((METRIC_Y_PADDING * 3) + METRIC_DEF_BUTTON_CY)),
                     TRUE, <<>>))

\* onCreate of the window's class. Window::onCreate: the corner radius of the
\* theme, 0, is the one a new Window already has. Button::onCreate sets its
\* own radius on top of Window::onCreate.
onCreate(s, w) ==
    CASE s.win[w].kind = "Prompt" -> Prompt_onCreate(s, w)
      [] s.win[w].kind = "Button" -> [setAppearance(s, w) EXCEPT !.r = TRUE]
      [] OTHER -> [s EXCEPT !.r = TRUE]

onDestroy(s, w) == [s EXCEPT !.r = TRUE]

onPostDraw(s, w) ==
    LET parent == s.win[w].parent
        toParent(own) == IF parent # 0 THEN markRectDirty(own, parent, s.win[w].rect)
                         ELSE own
    IN  [toParent(markRectDirty(s, w, s.win[w].rect)) EXCEPT !.r = TRUE]

\* Window::onDraw: the theme paints into the shared context, then POSTDRAW.
\* onDraw of the window's class: every class paints and ends with
\* routeMessage(MSG_POSTDRAW), except that ProgressBar::onDraw, after painting
\* background and frame, does so only when its bar style has PBR_NORMAL or
\* PBR_INDETERMINATE.
onDraw(s, w, p1, p2) ==
    IF /\ s.win[w].kind = "ProgressBar"
       /\ ~bitsHigh(s.win[w].barStyle, PBR_NORMAL)
       /\ ~bitsHigh(s.win[w].barStyle, PBR_INDETERMINATE)
    THEN [s EXCEPT !.r = FALSE]
    ELSE routeMessage(s, w, "MSG_POSTDRAW", 0, 0)

\* The handler of msg is invoked on w: the log takes the message with its
\* parameters and whether w is in its container's collection at that moment.
invoked(s, w, msg, p1, p2) ==
    [s EXCEPT !.log = Append(@, [w |-> w, msg |-> msg, p1 |-> p1, p2 |-> p2,
                                 member |-> \E i \in DOMAIN getChildren(s, s.win[w].parent) :
                                                getChildren(s, s.win[w].parent)[i] = w])]

\* onTapped of the window's class: a Button queues EVT_CHILD_TAPPED on its
\* parent (the time it notes only changes how it is painted); Window::onTapped
\* declines.
onTapped(s, w, x, y) ==
    IF s.win[w].kind = "Button" /\ s.win[w].parent # 0
    THEN [queueMessage(s, s.win[w].parent, "MSG_EVENT", EVT_CHILD_TAPPED, s.win[w].id)
            EXCEPT !.r = TRUE]
    ELSE [s EXCEPT !.r = FALSE]

onInput(s, w, p1, p2) ==
    IF getMsgParamLoWord(p1) = INPUT_TAP
    THEN onTapped(s, w, ToCoord(getMsgParamHiWord(p2)), ToCoord(getMsgParamLoWord(p2)))
    ELSE [s EXCEPT !.r = FALSE]

\* onEvent of the window's class: a Prompt hides itself on EVT_CHILD_TAPPED
\* and hands the button's id to its result callback, which is the caller's
\* code: the log takes the call.
onEvent(s, w, p1, p2) ==
    IF s.win[w].kind = "Prompt"
    THEN IF p1 = EVT_CHILD_TAPPED
         THEN [invoked(hide(s, w), w, "callback", 0, p2) EXCEPT !.r = TRUE]
         ELSE [s EXCEPT !.r = FALSE]
    ELSE [s EXCEPT !.r = TRUE]

\* onResize of the window's class: a Button takes the size of its text, at
\* least METRIC_DEF_BUTTON_CX wide; Window::onResize declines.
onResize(s, w, p1, p2) ==
    IF s.win[w].kind = "Button"
    THEN [setRect(s, w,
              [s.win[w].rect EXCEPT
                  !.right = ToCoord(s.win[w].rect.left
                                    + max(TextWidth, METRIC_DEF_BUTTON_CX)
                                    + (METRIC_BUTTON_LABEL_PADDING * 2)),
                  !.bottom = ToCoord(s.win[w].rect.top + METRIC_DEF_BUTTON_CY)])
            EXCEPT !.r = TRUE]
    ELSE [s EXCEPT !.r = FALSE]

routeMessage(s, w, msg, p1, p2) ==
    LET afterDirty(a, dirty, handled) ==
            IF dirty THEN [setDirty(a, w, TRUE, TRUE) EXCEPT !.r = handled]
            ELSE [a EXCEPT !.r = handled]
        created(a) ==
            IF a.r THEN afterDirty([a EXCEPT !.win[w].state = @ \cup STA_ALIVE], TRUE, TRUE)
            ELSE a
        drawn(a) == [setDirty(a, w, FALSE, TRUE) EXCEPT !.r = a.r]
        handled(a) == afterDirty(a, a.r, a.r)
    IN  CASE msg = "MSG_CREATE" -> created(onCreate(invoked(s, w, msg, p1, p2), w))
          [] msg = "MSG_DESTROY" ->
                [onDestroy(invoked(s, w, msg, p1, p2), w) EXCEPT !.win[w].state = @ \ STA_ALIVE,
                                        !.win[w].destroyed = TRUE]
          [] msg = "MSG_DRAW" ->
                IF ~isDrawable(s, w) THEN [s EXCEPT !.r = FALSE]
                ELSE IF ~isDirty(s, w) /\ p1 = 0 THEN [s EXCEPT !.r = FALSE]
                ELSE drawn(onDraw(invoked(s, w, msg, p1, p2), w, p1, p2))
          [] msg = "MSG_POSTDRAW" -> onPostDraw(invoked(s, w, msg, p1, p2), w)
          [] msg = "MSG_INPUT" -> handled(onInput(invoked(s, w, msg, p1, p2), w, p1, p2))
          [] msg = "MSG_EVENT" -> onEvent(invoked(s, w, msg, p1, p2), w, p1, p2)
          [] msg = "MSG_RESIZE" -> handled(onResize(invoked(s, w, msg, p1, p2), w, p1, p2))
          [] OTHER -> [s EXCEPT !.r = FALSE]

setDirty(s, w, dirty, redrawWindow) ==
    IF dirty
    THEN IF redrawWindow
         THEN redraw([s EXCEPT !.win[w].state = @ \cup STA_DIRTY], w, FALSE)
         ELSE [s EXCEPT !.win[w].state = @ \cup STA_DIRTY, !.r = TRUE]
    ELSE [s EXCEPT !.win[w].state = @ \ STA_DIRTY, !.r = TRUE]

\* The loop of redraw that flags every child dirty without redrawing it.
redrawMarkChildren(s, kids, i) ==
    IF i > Len(kids) THEN s
    ELSE redrawMarkChildren(setDirty(s, kids[i], TRUE, FALSE), kids, i + 1)

\* The forEachChild loop of redrawChildren; acc is childRedrawn so far.
redrawChildrenLoop(s, kids, i, force, acc) ==
    LET next(a) == redrawChildrenLoop(a, kids, i + 1, force, acc \/ a.r)
    IN  IF i > Len(kids) THEN [s EXCEPT !.r = acc]
        ELSE IF isDirty(s, kids[i]) \/ force THEN next(redraw(s, kids[i], force))
        ELSE redrawChildrenLoop(s, kids, i + 1, force, acc)

redrawChildren(s, w, force) == redrawChildrenLoop(s, s.win[w].children, 1, force, FALSE)

redraw(s, w, force) ==
    LET result(c, redrawn) == [c EXCEPT !.r = redrawn \/ c.r]
        children(b, redrawn) == result(redrawChildren(b, w, force), redrawn)
        own(a) == children(IF a.r THEN redrawMarkChildren(a, a.win[w].children, 1)
                           ELSE a, a.r)
    IN  IF ~isDrawable(s, w) THEN [s EXCEPT !.r = FALSE]
        ELSE own(IF isDirty(s, w) \/ force
                 THEN routeMessage(s, w, "MSG_DRAW", IF force THEN 1 ELSE 0, 0)
                 ELSE [s EXCEPT !.r = FALSE])

setStyle(s, w, style) ==
    IF style # s.win[w].style
    THEN setDirty([s EXCEPT !.win[w].style = style], w, TRUE, TRUE)
    ELSE s

setRect(s, w, rect) ==
    IF rect # s.win[w].rect
    THEN setDirty([s EXCEPT !.win[w].rect = rect], w, TRUE, TRUE)
    ELSE s

hide(s, w) ==
    LET invalidate(a) == [setDirtyRect(a, a.win[w].rect) EXCEPT !.r = TRUE]
    IN  IF ~isVisible(s, w) THEN [s EXCEPT !.r = FALSE]
        ELSE invalidate(setStyle(s, w, s.win[w].style \ STY_VISIBLE))

\* Window::setForegroundWindow always answers false; show() asks the manager,
\* whose registry is container 0.
show(s, w) ==
    LET topLevel == bitsHigh(s.win[w].style, STY_TOPLEVEL)
        finish(b, shown) == IF shown THEN setDirty(b, w, TRUE, TRUE)
                            ELSE [b EXCEPT !.r = FALSE]
        styled(a) == finish(setStyle(a, w, a.win[w].style \cup STY_VISIBLE), a.r)
    IN  IF ~topLevel /\ isVisible(s, w) THEN [s EXCEPT !.r = FALSE]
        ELSE styled(IF topLevel THEN setForegroundWindow(s, 0, w)
                    ELSE [s EXCEPT !.r = TRUE])

\* destroy that leaves the children to themselves.
destroyNotChildren(s, w) ==
    LET clear(c) == [removeAllChildren(c, w) EXCEPT !.r = c.r]
    IN  clear(routeMessage(hide(s, w), w, "MSG_DESTROY", 0, 0))

RECURSIVE destroy(_, _)
RECURSIVE destroyChildren(_, _, _, _)

\* The forEachChild loop of destroy; acc is "destroyed" so far.
destroyChildren(s, kids, i, acc) ==
    LET next(a) == destroyChildren(a, kids, i + 1, acc /\ a.r)
    IN  IF i > Len(kids) THEN [s EXCEPT !.r = acc]
        ELSE next(destroy(s, kids[i]))

destroy(s, w) ==
    LET clear(c) == [removeAllChildren(c, w) EXCEPT !.r = c.r]
        children(b) == clear(destroyChildren(b, b.win[w].children, 1, b.r))
    IN  children(routeMessage(hide(s, w), w, "MSG_DESTROY", 0, 0))

RECURSIVE tearDownLoop(_, _, _)
\* The forEachChild loop of tearDown over the registry.
tearDownLoop(s, kids, i) ==
    IF i > Len(kids) THEN s
    ELSE tearDownLoop(destroy(s, kids[i]), kids, i + 1)

\* WindowManager::tearDown
tearDown(s) == [removeAllChildren(tearDownLoop(s, s.reg, 1), 0) EXCEPT !.r = TRUE]

\* ProgressBar::setProgressBarStyle
setProgressBarStyle(s, w, barStyle) ==
    IF barStyle # s.win[w].barStyle
    THEN setDirty([s EXCEPT !.win[w].barStyle = barStyle], w, TRUE, TRUE)
    ELSE s

\* createProgressBar<TBar>: createWindow, then setProgressBarStyle on the
\* window if one was made. The result r is the new window's slot, 0 for
\* nullptr.
createProgressBar(s, parent, id, style, x, y, width0, height0, pbarStyle) ==
    LET styled(a) == IF a.r # 0
                     THEN [setProgressBarStyle(a, a.r, pbarStyle) EXCEPT !.r = a.r]
                     ELSE a
    IN  styled(createWindow(s, "ProgressBar", parent, id, style, x, y,
                            width0, height0, TRUE, <<>>))

RECURSIVE processQueue(_, _)
RECURSIVE processQueueChildren(_, _, _)
RECURSIVE processInput(_, _, _, _)
RECURSIVE processInputChildren(_, _, _, _, _)

\* A loop of processQueue that visits the first child only.
processQueueFirstChildOnly(s, kids, i) ==
    IF i > Len(kids) \/ i > 1 THEN s
    ELSE processQueue(s, kids[i])

\* The forEachChild loop of processQueue.
processQueueChildren(s, kids, i) ==
    IF i > Len(kids) THEN s
    ELSE processQueueChildren(processQueue(s, kids[i]), kids, i + 1)

\* processQueue that leaves the children alone.
processQueueOwnOnly(s, w) ==
    LET q == s.win[w].queue
        result(b) == [b EXCEPT !.r = (b.win[w].queue # <<>>)]
    IN  result(IF q # <<>>
               THEN routeMessage([s EXCEPT !.win[w].queue = Tail(q)], w,
                                 Head(q).msg, Head(q).p1, Head(q).p2)
               ELSE s)

\* processQueue that never reports a message still waiting.
processQueueReportingEmpty(s, w) ==
    LET q == s.win[w].queue
        result(b) == [b EXCEPT !.r = FALSE]
        children(a) == result(processQueueChildren(a, a.win[w].children, 1))
    IN  children(IF q # <<>>
                 THEN routeMessage([s EXCEPT !.win[w].queue = Tail(q)], w,
                                   Head(q).msg, Head(q).p1, Head(q).p2)
                 ELSE s)

processQueue(s, w) ==
    LET q == s.win[w].queue
        result(b) == [b EXCEPT !.r = (b.win[w].queue # <<>>)]
        children(a) == result(processQueueChildren(a, a.win[w].children, 1))
    IN  children(IF q # <<>>
                 THEN routeMessage([s EXCEPT !.win[w].queue = Tail(q)], w,
                                   Head(q).msg, Head(q).p1, Head(q).p2)
                 ELSE s)

\* The forEachChildReverse loop of processInput, from position i down to 1;
\* it stops at the first child that handles the input.
processInputChildren(s, kids, i, x, y) ==
    LET next(a) == IF a.r THEN a ELSE processInputChildren(a, kids, i - 1, x, y)
    IN  IF i < 1 THEN [s EXCEPT !.r = FALSE]
        ELSE next(processInput(s, kids[i], x, y))

\* processInput that queues on the window although a child took the input.
processInputAlsoSelf(s, w, x, y) ==
    LET own(a) == queueMessage(a, w, "MSG_INPUT", makeMsgParam(0, INPUT_TAP),
                               makeMsgParam(x, y))
    IN  IF ~isDrawable(s, w) THEN [s EXCEPT !.r = FALSE]
        ELSE IF ~pointWithin(s.win[w].rect, x, y) THEN [s EXCEPT !.r = FALSE]
        ELSE own(processInputChildren(s, s.win[w].children, Len(s.win[w].children), x, y))

processInput(s, w, x, y) ==
    LET own(a) == IF a.r THEN a
                  ELSE queueMessage(a, w, "MSG_INPUT", makeMsgParam(0, INPUT_TAP),
                                    makeMsgParam(x, y))
    IN  IF ~isDrawable(s, w) THEN [s EXCEPT !.r = FALSE]
        ELSE IF ~pointWithin(s.win[w].rect, x, y) THEN [s EXCEPT !.r = FALSE]
        ELSE own(processInputChildren(s, s.win[w].children, Len(s.win[w].children), x, y))

\* ---------------------------------------------------------- WindowManager
\* The slot the next constructed Window object takes (0 when none is left).
freeSlot(s) ==
    IF \A w \in Slots : s.win[w].used THEN 0
    ELSE CHOOSE w \in Slots : ~s.win[w].used /\ \A v \in Slots : ~s.win[v].used => w <= v

\* Window::Window takes the graphics context from parent->getGfxContext()
\* unless the style is STY_TOPLEVEL with no parent: with no parent that read
\* goes through a null pointer.
readsNullParent(parent, style) == parent = 0 /\ ~bitsHigh(style, STY_TOPLEVEL)

\* Window::Window: the dirty rect starts as the whole rect and
\* setDirty(true, false) raises STA_DIRTY.
newWindow(kind, parent, id, style, rect) ==
    [used |-> TRUE, kind |-> kind, parent |-> parent, id |-> id, style |-> style,
     state |-> STA_DIRTY, rect |-> rect, dirtyRect |-> rect, zOrder |-> 0,
     queue |-> <<>>, children |-> <<>>, destroyed |-> FALSE, barStyle |-> {}]

RECURSIVE addButtons(_, _, _, _)
\* The loop of createPrompt's pre-creation hook from button i on: addButton
\* creates a Button child of prompt w with the id buttons[i]; r tells whether
\* the hook succeeds.
addButtons(s, w, buttons, i) ==
    LET next(a) == IF a.r = 0 THEN [a EXCEPT !.r = FALSE]
                   ELSE addButtons(a, w, buttons, i + 1)
    IN  IF i > Len(buttons) THEN [s EXCEPT !.r = TRUE]
        ELSE next(createWindow(s, "Button", w, buttons[i],
                      STY_CHILD \cup STY_VISIBLE \cup STY_AUTOSIZE \cup STY_BUTTON,
                      0, 0, 0, 0, TRUE, <<>>))

\* createWindow<TWindow>, TWindow being kind. The pre-creation hook returns
\* hookOk (TRUE also stands for "no hook") after it has added the buttons, if
\* any, as createPrompt's hook does. The result r is the new window's slot, 0
\* for nullptr. A window that is not returned is released again, unless
\* children were attached to it: each child holds a shared_ptr to its parent
\* and the parent one to each child, so these objects stay.
createWindow(s, kind, parent, id, style, x0, y0, width0, height0, hookOk, buttons) ==
    LET n == freeSlot(s)
        fullscreen == bitsHigh(style, STY_FULLSCREEN)
        x == IF fullscreen THEN 0 ELSE x0
        y == IF fullscreen THEN 0 ELSE y0
        w == IF fullscreen THEN DisplayWidth ELSE width0
        h == IF fullscreen THEN DisplayHeight ELSE height0
        failed(a) == IF a.win[n].children = <<>>
                     THEN [a EXCEPT !.win[n] = NoWindow, !.r = 0]
                     ELSE [a EXCEPT !.r = 0]
        drawn(a) == [redraw(a, n, FALSE) EXCEPT !.r = n]
        added(a) == IF ~a.r THEN failed(a)
                    ELSE IF bitsHigh(a.win[n].style, STY_AUTOSIZE)
                    THEN drawn(routeMessage(a, n, "MSG_RESIZE", 0, 0))
                    ELSE drawn(a)
        created(a) == IF ~a.r THEN failed(a) ELSE added(addChild(a, parent, n))
        hooked(a) == IF ~a.r THEN failed(a)
                     ELSE created(routeMessage(a, n, "MSG_CREATE", 0, 0))
        made(a) == IF bitsHigh(style, STY_CHILD) /\ parent = 0 THEN failed(a)
                   ELSE IF bitsHigh(style, STY_TOPLEVEL) /\ parent # 0 THEN failed(a)
                   ELSE IF ~hookOk THEN failed(a)
                   ELSE hooked(addButtons(a, n, buttons, 1))
    IN  IF id = WID_INVALID THEN [s EXCEPT !.r = 0]
        ELSE made([s EXCEPT !.win[n] =
                      newWindow(kind, parent, id, style, Rect(x, y, x + w, y + h))])

\* createPrompt<Prompt>: the prompt is centred on the display and its hook
\* adds one button per entry of buttons.
createPrompt(s, parent, id, style, buttons) ==
    LET width0 == min(METRIC_MAX_PROMPT_CX, ToExtent(DisplayWidth - (METRIC_X_PADDING * 2)))
        height0 == min(METRIC_MAX_PROMPT_CY, ToExtent(DisplayHeight - (METRIC_Y_PADDING * 2)))
    IN  createWindow(s, "Prompt", parent, id, style,
                     ToCoord((DisplayWidth \div 2) - (width0 \div 2)),
                     ToCoord((DisplayHeight \div 2) - (height0 \div 2)),
                     width0, height0, TRUE, buttons)

\* ------------------------------------------- the older header, twm.h
\* twm.h holds an earlier Window and WindowManager (namespace thumby) with
\* the same tree but without dirty rects and z-order numbers. Its operators
\* work on the same world s and carry the prefix twm_.
twm_isVisible(s, w) == bitsHigh(s.win[w].style, STY_VISIBLE)

RECURSIVE twm_isDrawable(_, _)
twm_isDrawable(s, w) ==
    /\ twm_isVisible(s, w)
    /\ isAlive(s, w)
    /\ (s.win[w].parent = 0 \/ twm_isDrawable(s, s.win[w].parent))

RECURSIVE twm_redraw(_, _)
\* The value redraw returns; painting changes no field of the model.
twm_redraw(s, w) ==
    /\ twm_isDrawable(s, w)
    /\ \A i \in DOMAIN s.win[w].children : twm_redraw(s, s.win[w].children[i])

twm_addChild(s, c, child) ==
    IF getChildByID(s, c, s.win[child].id) # 0
    THEN [s EXCEPT !.r = FALSE]
    ELSE [setChildren(s, c, Append(getChildren(s, c), child)) EXCEPT !.r = TRUE]

twm_hide(s, w) ==
    IF twm_isVisible(s, w)
    THEN [s EXCEPT !.win[w].style = @ \ STY_VISIBLE, !.r = TRUE]
    ELSE [s EXCEPT !.r = FALSE]

twm_show(s, w) ==
    LET shown == [s EXCEPT !.win[w].style = @ \cup STY_VISIBLE]
    IN  IF twm_isVisible(s, w) THEN [s EXCEPT !.r = FALSE]
        ELSE [shown EXCEPT !.r = twm_redraw(shown, w)]

\* routeMessage(MSG_DESTROY): Window::onDestroy clears STA_ALIVE.
twm_onDestroy(s, w) ==
    [s EXCEPT !.win[w].state = @ \ STA_ALIVE, !.win[w].destroyed = TRUE, !.r = TRUE]

RECURSIVE twm_destroy(_, _)
RECURSIVE twm_destroyChildren(_, _, _, _)
twm_destroyChildren(s, kids, i, acc) ==
    LET next(a) == twm_destroyChildren(a, kids, i + 1, acc /\ a.r)
    IN  IF i > Len(kids) THEN [s EXCEPT !.r = acc]
        ELSE next(twm_destroy(s, kids[i]))

twm_destroy(s, w) ==
    LET clear(c) == [removeAllChildren(c, w) EXCEPT !.r = c.r]
        children(b) == clear(twm_destroyChildren(b, b.win[w].children, 1, b.r))
    IN  children(twm_onDestroy(s, w))

RECURSIVE twm_tearDownLoop(_, _, _)
twm_tearDownLoop(s, kids, i) ==
    IF i > Len(kids) THEN s
    ELSE twm_tearDownLoop(twm_destroy(s, kids[i]), kids, i + 1)

twm_tearDown(s) ==
    [removeAllChildren(twm_tearDownLoop(s, s.reg, 1), 0) EXCEPT !.r = TRUE]

\* createWindow<Window> of twm.h: STA_ALIVE is set after addChild; a window
\* that is not returned is released.
twm_createWindow(s, parent, id, style, x0, y0, width0, height0, hookOk) ==
    LET n == freeSlot(s)
        fullscreen == bitsHigh(style, STY_FULLSCREEN)
        x == IF fullscreen THEN 0 ELSE x0
        y == IF fullscreen THEN 0 ELSE y0
        w == IF fullscreen THEN DisplayWidth ELSE width0
        h == IF fullscreen THEN DisplayHeight ELSE height0
        made == [newWindow("Window", parent, id, style, Rect(x, y, x + w, y + h))
                    EXCEPT !.state = {}]
        added(a) == IF ~a.r THEN [s EXCEPT !.r = 0]
                    ELSE [a EXCEPT !.win[n].state = @ \cup STA_ALIVE, !.r = n]
    IN  IF id = WID_INVALID THEN [s EXCEPT !.r = 0]
        ELSE IF bitsHigh(style, STY_CHILD) /\ parent = 0 THEN [s EXCEPT !.r = 0]
        ELSE IF bitsHigh(style, STY_TOPLEVEL) /\ parent # 0 THEN [s EXCEPT !.r = 0]
        ELSE IF ~hookOk THEN [s EXCEPT !.r = 0]
        ELSE added(twm_addChild([s EXCEPT !.win[n] = made], parent, n))

RECURSIVE hitTestLoopBottomUp(_, _, _, _)
\* The hitTest loop walking the registry front to back: the window at
\* position i is asked after those below it.
hitTestLoopBottomUp(s, i, x, y) ==
    LET last(a) == IF a.r \/ ~isDrawable(a, a.reg[i]) THEN a
                   ELSE processInput(a, a.reg[i], x, y)
    IN  IF i < 1 THEN [s EXCEPT !.r = FALSE]
        ELSE last(hitTestLoopBottomUp(s, i - 1, x, y))

RECURSIVE hitTestLoop(_, _, _, _)
\* The forEachChildReverse loop of hitTest, from registry position i down to
\* 1; r is "claimed".
hitTestLoop(s, i, x, y) ==
    LET next(a) == IF a.r THEN a ELSE hitTestLoop(a, i - 1, x, y)
    IN  IF i < 1 THEN [s EXCEPT !.r = FALSE]
        ELSE IF ~isDrawable(s, s.reg[i]) THEN hitTestLoop(s, i - 1, x, y)
        ELSE next(processInput(s, s.reg[i], x, y))

\* displayToWindow(win, Point&): r says whether the point was converted.
displayToWindowPoint(s, w, pt) ==
    LET windowRect == s.win[w].rect
    IN  IF pointWithin(windowRect, pt.x, pt.y)
        THEN [ok |-> TRUE, pt |-> [x |-> ToCoord(pt.x - windowRect.left),
                                   y |-> ToCoord(pt.y - windowRect.top)]]
        ELSE [ok |-> FALSE, pt |-> pt]

\* displayToWindow(win, Rect&).
displayToWindow(s, w, rect) ==
    LET both(topLeft, bottomRight) ==
            IF topLeft.ok /\ bottomRight.ok
            THEN [ok |-> TRUE,
                  rect |-> [left |-> topLeft.pt.x, top |-> topLeft.pt.y,
                            right |-> bottomRight.pt.x, bottom |-> bottomRight.pt.y]]
            ELSE [ok |-> FALSE, rect |-> rect]
    IN  both(displayToWindowPoint(s, w, [x |-> rect.left, y |-> rect.top]),
             displayToWindowPoint(s, w, [x |-> rect.right, y |-> rect.bottom]))

\* windowToDisplay(win, Point&).
windowToDisplayPoint(s, w, pt) ==
    LET windowRect == s.win[w].rect
        clientRect == Rect(0, 0, width(windowRect), height(windowRect))
    IN  IF pointWithin(clientRect, pt.x, pt.y)
        THEN [ok |-> TRUE, pt |-> [x |-> ToCoord(pt.x + windowRect.left),
                                   y |-> ToCoord(pt.y + windowRect.top)]]
        ELSE [ok |-> FALSE, pt |-> pt]

\* windowToDisplay(win, Rect&).
windowToDisplay(s, w, rect) ==
    LET both(topLeft, bottomRight) ==
            IF topLeft.ok /\ bottomRight.ok
            THEN [ok |-> TRUE,
                  rect |-> [left |-> topLeft.pt.x, top |-> topLeft.pt.y,
                            right |-> bottomRight.pt.x, bottom |-> bottomRight.pt.y]]
            ELSE [ok |-> FALSE, rect |-> rect]
    IN  both(windowToDisplayPoint(s, w, [x |-> rect.left, y |-> rect.top]),
             windowToDisplayPoint(s, w, [x |-> rect.right, y |-> rect.bottom]))

RECURSIVE processQueueWhile(_, _)
\* while (win->processQueue()) { }
processQueueWhile(s, w) ==
    LET again(a) == IF a.r THEN processQueueWhile(a, w) ELSE a
    IN  again(processQueue(s, w))

RECURSIVE obscuringLoop(_, _, _, _)
\* The forEachChildReverse loop of render that merges the rects of the drawable
\* windows above w: acc = [set, rect] is (obscuringRectSet, obscuringRect).
obscuringLoop(s, w, i, acc) ==
    IF i < 1 \/ s.reg[i] = w THEN acc
    ELSE IF ~isDrawable(s, s.reg[i]) THEN obscuringLoop(s, w, i - 1, acc)
    ELSE LET aboveRect == s.win[s.reg[i]].rect
         IN  obscuringLoop(s, w, i - 1,
                 IF ~acc.set THEN [set |-> TRUE, rect |-> aboveRect]
                 ELSE [set |-> TRUE, rect |-> mergeRect(acc.rect, aboveRect)])

\* A copy loop that reports success and copies nothing.
copyLoopCopyingNothing(s, w, rects, i, copied) == [ok |-> TRUE, copied |-> copied]

RECURSIVE copyLoop(_, _, _, _, _)
\* The "while (!dirtyRects.empty())" loop of render for window w: every
\* fragment that converts to window coordinates is copied to the display;
\* ok turns FALSE at the first one that does not, which ends the loop.
copyLoop(s, w, rects, i, copied) ==
    IF i > Len(rects) THEN [ok |-> TRUE, copied |-> copied]
    ELSE IF ~displayToWindow(s, w, rects[i]).ok THEN [ok |-> FALSE, copied |-> copied]
    ELSE copyLoop(s, w, rects, i + 1, Append(copied, [w |-> w, rect |-> rects[i]]))

\* The fragments of dirtyRect that render hands to the copy loop, or <<>>
\* when nothing is left after subtracting the obscuring rect.
dirtyFragments(dirtyRect, obscuringRect) ==
    IF ~empty(obscuringRect) THEN subtractRect(dirtyRect, obscuringRect)
    ELSE <<dirtyRect>>

RECURSIVE renderLoop(_, _, _, _, _)
\* The forEachChild loop of render over the registry from position i on:
\* copied are the regions copied to the display so far, updated is the
\* "updated" flag, counted the windows that set it.
renderLoop(s, i, copied, updated, counted) ==
    LET next(b, nowCopied, nowUpdated, nowCounted) ==
            renderLoop(b, i + 1, nowCopied, nowUpdated, nowCounted)
        skip(a) == next(a, copied, updated, counted)
        copy(a, w, c) ==
            IF ~c.ok THEN next(a, c.copied, updated, counted)
            ELSE next(markRectDirty(a, w, ZeroRect), c.copied, TRUE, counted \cup {w})
        paint(a, w, dirtyRects) ==
            IF dirtyRects = <<>> THEN skip(markRectDirty(a, w, ZeroRect))
            ELSE copy(a, w, copyLoop(a, w, dirtyRects, 1, copied))
        window(a, w) ==
            IF ~isDrawable(a, w) THEN skip(a)
            ELSE IF empty(a.win[w].dirtyRect) THEN skip(a)
            ELSE paint(a, w, dirtyFragments(a.win[w].dirtyRect,
                     obscuringLoop(a, w, Len(a.reg), [set |-> FALSE, rect |-> ZeroRect]).rect))
    IN  IF i > Len(s.reg)
        THEN [s |-> s, copied |-> copied, updated |-> updated, counted |-> counted]
        ELSE window(processQueueWhile(s, s.reg[i]), s.reg[i])

\* --------------------------------------------------------------- variables
VARIABLES
    geoA,      \* the receiver of the Rect operation under test
    geoB,      \* its argument
    geoOp,     \* which Rect operation has been applied ("none" before any)
    geoRects,  \* the std::queue<Rect> returned by subtractRect
    geoFlag,   \* the bool returned by intersectsRect / this and the swapped call
    win,       \* the Window objects by slot: fields of Window (exostra.h:2558-2581)
    registry,  \* WindowManager::_registry, back to front
    wmState,   \* WindowManager::_state
    ssaverEpoch,            \* WindowManager::_ssaverEpoch
    ssaverActivateAfter,    \* WindowManager::_ssaverActivateAfter
    lastRenderTime,         \* WindowManager::_lastRenderTime
    lastHitTestTime,        \* WindowManager::_lastHitTestTime
    minRenderIntervalMsec,  \* WindowManager::_config.minRenderIntervalMsec
    minHitTestIntervalMsec, \* WindowManager::_config.minHitTestIntervalMsec
    now,       \* millis()
    thr,       \* the threads inside hitTest and render, and the mutexes they hold
    lastOp     \* history: the last call made, its arguments and what it returned

geoVars == <<geoA, geoB, geoOp, geoRects, geoFlag>>

treeVars == <<win, registry>>

wmVars == <<wmState, ssaverEpoch, ssaverActivateAfter, lastRenderTime,
            lastHitTestTime, minRenderIntervalMsec, minHitTestIntervalMsec, now>>

vars == <<geoVars, treeVars, wmVars, thr, lastOp>>

\* The world the Window operators work on.
World == [win |-> win, reg |-> registry, r |-> FALSE, log |-> <<>>]

\* A history record: op is the call, w the window it was made on (or returned),
\* x and y its point, ret its return value; copied, counted and flushed
\* describe a render pass: the regions copied to the display in order, the
\* windows that set "updated", and whether the display was flushed; parent,
\* id, style, hookOk and buttons are the arguments of a createWindow or
\* createPrompt call, and halted tells that the call ended the program; rect
\* is the argument of a setDirtyRect call or of a coordinate conversion, and
\* out is the argument of a conversion as the call left it; log lists the
\* handlers and callbacks that a createWindow, createPrompt or render call
\* invoked, in order.
OpRec(op, w, x, y, ret) ==
    [op |-> op, w |-> w, x |-> x, y |-> y, ret |-> ret,
     copied |-> <<>>, counted |-> {}, flushed |-> FALSE,
     parent |-> 0, id |-> WID_INVALID, style |-> {}, hookOk |-> TRUE,
     buttons |-> <<>>, halted |-> FALSE, rect |-> ZeroRect, out |-> ZeroRect,
     log |-> <<>>]

\* The two threads of a build with mutexes: one calls hitTest, the other
\* render. A mutex is named by the member and the object it belongs to
\* (window w, or 0 for the registry).
Threads == {"hit", "render"}

Mutexes == {"_childMtx", "_queueMtx"}

LockIds == Mutexes \X (0..MaxWin)

\* An instruction a thread has still to execute: op on the mutex m of window
\* w, or on window w at position i of a loop.
Ins(op, m, w, i) == [op |-> op, m |-> m, w |-> w, i |-> i]

\* No thread is inside a call and no mutex is held. todo is what each thread
\* has still to execute of its call; owner and count are the state of each
\* std::recursive_mutex; ret, more, pt and local are locals of the calls
\* (the value processInput returned, the value processQueue returned, the
\* point of the hit test, the queue as push or pop read it); taps counts the
\* hitTest calls; bare, fresh, queued and dispatched are history: whether a
\* collection or queue was used by a thread that did not hold its mutex,
\* whether a child's queueMessage on its parent had to acquire a mutex its
\* thread did not hold, and the messages pushed to and popped from each
\* window's queue, in order.
NoThreads ==
    [todo |-> [t \in Threads |-> <<>>],
     owner |-> [l \in LockIds |-> "none"],
     count |-> [l \in LockIds |-> 0],
     ret |-> FALSE, more |-> FALSE, pt |-> <<0, 0>>,
     local |-> [t \in Threads |-> <<>>],
     taps |-> 0, bare |-> FALSE, fresh |-> FALSE,
     queued |-> [w \in Slots |-> <<>>],
     dispatched |-> [w \in Slots |-> <<>>]]

\* The state after WindowManager's constructor, with the given Config.
WmInit(minRender, minHitTest) ==
    /\ win = [w \in Slots |-> NoWindow]
    /\ registry = <<>>
    /\ wmState = {}
    /\ ssaverEpoch = 0
    /\ ssaverActivateAfter = 0
    /\ lastRenderTime = 0
    /\ lastHitTestTime = 0
    /\ minRenderIntervalMsec = minRender
    /\ minHitTestIntervalMsec = minHitTest
    /\ now = 0
    /\ thr = NoThreads
    /\ lastOp = OpRec("none", 0, 0, 0, FALSE)

\* No Rect operation under test.
GeoIdle ==
    /\ geoA = ZeroRect
    /\ geoB = ZeroRect
    /\ geoOp = "none"
    /\ geoRects = <<>>
    /\ geoFlag = <<FALSE, FALSE>>

\* ---------------------------------------------------------------- actions
\* The effect of a call on a window: a is the world it leaves, with its
\* return value.
Done(a, op, w, x, y) ==
    /\ win' = a.win
    /\ registry' = a.reg
    /\ lastOp' = OpRec(op, w, x, y, a.r)
    /\ UNCHANGED <<geoVars, thr, wmVars>>

\* createWindow<Window>(parent, id, style, x, y, width, height) with a
\* pre-creation hook that returns hookOk. When the constructor reads through
\* a null parent the behaviour is undefined: the program either stops there
\* (halts) or carries on with a meaningless graphics context, which the
\* model does not keep.
CreateWindow(parent, id, style, x, y, width0, height0, hookOk) ==
    /\ freeSlot(World) # 0
    /\ parent # 0 => win[parent].used
    /\ LET called == [OpRec("createWindow", 0, 0, 0, FALSE) EXCEPT
                         !.parent = parent, !.id = id, !.style = style,
                         !.hookOk = hookOk]
           done(a) == /\ win' = a.win
                      /\ registry' = a.reg
                      /\ lastOp' = [called EXCEPT !.w = a.r, !.ret = (a.r # 0),
                                                  !.log = a.log]
       IN  \E halts \in (IF id # WID_INVALID /\ readsNullParent(parent, style)
                         THEN BOOLEAN ELSE {FALSE}) :
               IF halts
               THEN /\ lastOp' = [called EXCEPT !.halted = TRUE]
                    /\ UNCHANGED treeVars
               ELSE done(createWindow(World, "Window", parent, id, style,
                                      x, y, width0, height0, hookOk, <<>>))
    /\ UNCHANGED <<geoVars, thr, wmVars>>

\* createPrompt<Prompt>(parent, id, style, text, buttons, callback): the
\* prompt, its buttons and its label each take a Window object.
CreatePrompt(parent, id, style, buttons) ==
    /\ Cardinality({w \in Slots : ~win[w].used}) >= Len(buttons) + 2
    /\ parent # 0 => win[parent].used
    /\ LET called == [OpRec("createPrompt", 0, 0, 0, FALSE) EXCEPT
                         !.parent = parent, !.id = id, !.style = style,
                         !.buttons = buttons]
           done(a) == /\ win' = a.win
                      /\ registry' = a.reg
                      /\ lastOp' = [called EXCEPT !.w = a.r, !.ret = (a.r # 0),
                                                  !.log = a.log]
       IN  \E halts \in (IF id # WID_INVALID /\ readsNullParent(parent, style)
                         THEN BOOLEAN ELSE {FALSE}) :
               IF halts
               THEN /\ lastOp' = [called EXCEPT !.halted = TRUE]
                    /\ UNCHANGED treeVars
               ELSE done(createPrompt(World, parent, id, style, buttons))
    /\ UNCHANGED <<geoVars, thr, wmVars>>

\* createWindow<Button>(parent, id, style, x, y, width, height), parent not
\* null.
CreateButton(parent, id, style, x, y, width0, height0) ==
    /\ freeSlot(World) # 0
    /\ parent # 0 /\ win[parent].used
    /\ win' = createWindow(World, "Button", parent, id, style,
                           x, y, width0, height0, TRUE, <<>>).win
    /\ registry' = createWindow(World, "Button", parent, id, style,
                                x, y, width0, height0, TRUE, <<>>).reg
    /\ lastOp' = [OpRec("createWindow",
                        createWindow(World, "Button", parent, id, style,
                                     x, y, width0, height0, TRUE, <<>>).r, 0, 0,
                        createWindow(World, "Button", parent, id, style,
                                     x, y, width0, height0, TRUE, <<>>).r # 0) EXCEPT
                     !.parent = parent, !.id = id, !.style = style,
                     !.log = createWindow(World, "Button", parent, id, style,
                                          x, y, width0, height0, TRUE, <<>>).log]
    /\ UNCHANGED <<geoVars, thr, wmVars>>

\* win->hide()
Hide(w) ==
    /\ win[w].used
    /\ Done(hide(World, w), "hide", w, 0, 0)

\* win->show()
Show(w) ==
    /\ win[w].used
    /\ Done(show(World, w), "show", w, 0, 0)

\* win->destroy()
Destroy(w) ==
    /\ win[w].used
    /\ Done(destroy(World, w), "destroy", w, 0, 0)

\* win->setDirty(true), also reached through setText, setBgColor and the
\* other setters.
SetDirty(w) ==
    /\ win[w].used
    /\ Done(setDirty(World, w, TRUE, TRUE), "setDirty", w, 0, 0)

\* WindowManager::setDirtyRect(rect)
SetDirtyRect(rect) ==
    /\ win' = setDirtyRect(World, rect).win
    /\ registry' = registry
    /\ lastOp' = [OpRec("setDirtyRect", 0, 0, 0, TRUE) EXCEPT !.rect = rect]
    /\ UNCHANGED <<geoVars, thr, wmVars>>

\* WindowManager::setForegroundWindow(win)
SetForegroundWindow(w) ==
    /\ win[w].used
    /\ Done(setForegroundWindow(World, 0, w), "setForegroundWindow", w, 0, 0)

\* parent->removeChildByID(id) on a Window
RemoveChildByID(parent, id) ==
    /\ win[parent].used
    /\ Done(removeChildByID(World, parent, id), "removeChildByID", parent, id, 0)

\* millis() advances. The clock stays far below 2^32, so the unsigned
\* differences the manager takes of it never wrap.
Tick ==
    /\ now < MaxTime
    /\ now' = now + 1
    /\ lastOp' = OpRec("tick", 0, 0, 0, FALSE)
    /\ UNCHANGED <<geoVars, thr, treeVars, wmState, ssaverEpoch, ssaverActivateAfter,
                   lastRenderTime, lastHitTestTime, minRenderIntervalMsec,
                   minHitTestIntervalMsec>>

\* The number of messages pending in all queues.
RECURSIVE SumQueues(_, _)
SumQueues(wins, n) == IF n = 0 THEN 0 ELSE Len(wins[n].queue) + SumQueues(wins, n - 1)

\* hitTest that walks the windows although the screensaver is active.
HitTestWhileSaverActive(x, y) ==
    /\ SumQueues(win, MaxWin) < MaxQueue
    /\ IF (now - lastHitTestTime) < minHitTestIntervalMsec
       THEN /\ lastOp' = OpRec("hitTest", 0, x, y, FALSE)
            /\ UNCHANGED <<treeVars, wmVars>>
       ELSE /\ ssaverEpoch' = IF bitsHigh(wmState, WMS_SSAVER_ENABLED)
                              THEN now ELSE ssaverEpoch
            /\ win' = hitTestLoop(World, Len(registry), x, y).win
            /\ registry' = registry
            /\ lastHitTestTime' = now
            /\ lastOp' = OpRec("hitTest", 0, x, y, TRUE)
            /\ UNCHANGED <<wmState, ssaverActivateAfter, lastRenderTime,
                           minRenderIntervalMsec, minHitTestIntervalMsec, now>>
    /\ UNCHANGED <<geoVars, thr>>

\* hitTest without its rate limit.
HitTestAtAnyRate(x, y) ==
    /\ SumQueues(win, MaxWin) < MaxQueue
    /\ ssaverEpoch' = IF bitsHigh(wmState, WMS_SSAVER_ENABLED) THEN now ELSE ssaverEpoch
    /\ IF bitsHigh(wmState, WMS_SSAVER_ENABLED) /\ bitsHigh(wmState, WMS_SSAVER_ACTIVE)
       THEN /\ lastOp' = OpRec("hitTest", 0, x, y, FALSE)
            /\ UNCHANGED <<treeVars, lastHitTestTime>>
       ELSE /\ win' = hitTestLoop(World, Len(registry), x, y).win
            /\ registry' = registry
            /\ lastHitTestTime' = now
            /\ lastOp' = OpRec("hitTest", 0, x, y, TRUE)
    /\ UNCHANGED <<geoVars, thr, wmState, ssaverActivateAfter, lastRenderTime,
                   minRenderIntervalMsec, minHitTestIntervalMsec, now>>

\* WindowManager::hitTest(x, y). ret tells whether the window walk ran.
HitTest(x, y) ==
    /\ SumQueues(win, MaxWin) < MaxQueue
    /\ IF (now - lastHitTestTime) < minHitTestIntervalMsec
       THEN /\ lastOp' = OpRec("hitTest", 0, x, y, FALSE)
            /\ UNCHANGED <<treeVars, wmVars>>
       ELSE /\ ssaverEpoch' = IF bitsHigh(wmState, WMS_SSAVER_ENABLED)
                              THEN now ELSE ssaverEpoch
            /\ IF bitsHigh(wmState, WMS_SSAVER_ENABLED)
                  /\ bitsHigh(wmState, WMS_SSAVER_ACTIVE)
               THEN /\ lastOp' = OpRec("hitTest", 0, x, y, FALSE)
                    /\ UNCHANGED <<treeVars, lastHitTestTime>>
               ELSE LET walked(a) == /\ win' = a.win
                                     /\ registry' = a.reg
                        IN  /\ walked(hitTestLoop(World, Len(registry), x, y))
                            /\ lastHitTestTime' = now
                            /\ lastOp' = OpRec("hitTest", 0, x, y, TRUE)
            /\ UNCHANGED <<wmState, ssaverActivateAfter, lastRenderTime,
                           minRenderIntervalMsec, minHitTestIntervalMsec, now>>
    /\ UNCHANGED <<geoVars, thr>>

\* WindowManager::render(). ret tells whether the pass was executed.
\* createProgressBar with a parent that exists.
CreateProgressBar(parent, id, style, x, y, width0, height0, pbarStyle) ==
    /\ freeSlot(World) # 0
    /\ parent # 0 /\ win[parent].used
    /\ win' = createProgressBar(World, parent, id, style, x, y, width0, height0, pbarStyle).win
    /\ registry' = createProgressBar(World, parent, id, style, x, y, width0, height0, pbarStyle).reg
    /\ lastOp' = [OpRec("createProgressBar",
                        createProgressBar(World, parent, id, style, x, y, width0, height0, pbarStyle).r,
                        0, 0,
                        createProgressBar(World, parent, id, style, x, y, width0, height0, pbarStyle).r # 0)
                     EXCEPT !.parent = parent, !.id = id, !.style = style,
                            !.log = createProgressBar(World, parent, id, style, x, y, width0, height0, pbarStyle).log]
    /\ UNCHANGED <<geoVars, thr, wmVars>>

\* setDirty(true, redrawWindow) on window w; x records redrawWindow as 1 or 0.
SetDirtyRedraw(w, redrawWindow) ==
    /\ win[w].used
    /\ win' = setDirty(World, w, TRUE, redrawWindow).win
    /\ registry' = setDirty(World, w, TRUE, redrawWindow).reg
    /\ lastOp' = [OpRec("setDirty", w, IF redrawWindow THEN 1 ELSE 0, 0,
                        setDirty(World, w, TRUE, redrawWindow).r)
                     EXCEPT !.log = setDirty(World, w, TRUE, redrawWindow).log]
    /\ UNCHANGED <<geoVars, thr, wmVars>>

\* redraw(force) on window w; x records force as 1 or 0.
Redraw(w, force) ==
    /\ win[w].used
    /\ win' = redraw(World, w, force).win
    /\ registry' = redraw(World, w, force).reg
    /\ lastOp' = [OpRec("redraw", w, IF force THEN 1 ELSE 0, 0, redraw(World, w, force).r)
                     EXCEPT !.log = redraw(World, w, force).log]
    /\ UNCHANGED <<geoVars, thr, wmVars>>

\* One call of processQueue on window w, as render makes it on each window
\* of the registry and processQueue makes it on each child.
ProcessQueue(w) ==
    /\ win[w].used
    /\ win' = processQueue(World, w).win
    /\ registry' = processQueue(World, w).reg
    /\ lastOp' = [OpRec("processQueue", w, 0, 0, processQueue(World, w).r)
                     EXCEPT !.log = processQueue(World, w).log]
    /\ UNCHANGED <<geoVars, thr, wmVars>>

Render ==
    /\ IF (now - lastRenderTime) < minRenderIntervalMsec
       THEN /\ lastOp' = OpRec("render", 0, 0, 0, FALSE)
            /\ UNCHANGED <<treeVars, wmVars>>
       ELSE LET enabled == bitsHigh(wmState, WMS_SSAVER_ENABLED)
                due == (now - ssaverEpoch) >= ssaverActivateAfter
                wasActive == bitsHigh(wmState, WMS_SSAVER_ACTIVE)
                state1 == IF enabled /\ due THEN wmState \cup WMS_SSAVER_ACTIVE
                          ELSE IF enabled /\ wasActive
                          THEN wmState \ (WMS_SSAVER_ACTIVE \cup WMS_SSAVER_DRAWN)
                          ELSE wmState
                active == bitsHigh(state1, WMS_SSAVER_ACTIVE)
                drawSaver == active /\ ~bitsHigh(state1, WMS_SSAVER_DRAWN)
                done(t) ==
                    /\ win' = t.s.win
                    /\ registry' = t.s.reg
                    /\ lastRenderTime' = IF t.updated THEN now ELSE lastRenderTime
                    /\ lastOp' = [OpRec("render", 0, 0, 0, TRUE) EXCEPT
                                    !.copied = t.copied, !.counted = t.counted,
                                    !.flushed = t.updated, !.log = t.s.log]
                windows(s1) ==
                    IF active
                    THEN done([s |-> s1, copied |-> <<>>, updated |-> drawSaver,
                               counted |-> {}])
                    ELSE done(renderLoop(s1, 1, <<>>, FALSE, {}))
            IN  /\ windows(IF enabled /\ ~due /\ wasActive
                           THEN setDirtyRect(World, getDisplayRect) ELSE World)
                /\ wmState' = IF drawSaver THEN state1 \cup WMS_SSAVER_DRAWN ELSE state1
                /\ UNCHANGED <<ssaverEpoch, ssaverActivateAfter, lastHitTestTime,
                               minRenderIntervalMsec, minHitTestIntervalMsec, now>>
    /\ UNCHANGED <<geoVars, thr>>

\* WindowManager::enableScreensaver(activateAfterMsec)
EnableScreensaver(activateAfterMsec) ==
    /\ ssaverActivateAfter' = activateAfterMsec
    /\ ssaverEpoch' = now
    /\ wmState' = wmState \cup WMS_SSAVER_ENABLED
    /\ lastOp' = OpRec("enableScreensaver", 0, 0, 0, TRUE)
    /\ UNCHANGED <<geoVars, thr, treeVars, lastRenderTime, lastHitTestTime,
                   minRenderIntervalMsec, minHitTestIntervalMsec, now>>

\* WindowManager::disableScreensaver()
DisableScreensaver ==
    /\ wmState' = wmState \ (WMS_SSAVER_ENABLED \cup WMS_SSAVER_ACTIVE \cup WMS_SSAVER_DRAWN)
    /\ lastOp' = OpRec("disableScreensaver", 0, 0, 0, TRUE)
    /\ UNCHANGED <<geoVars, thr, treeVars, ssaverEpoch, ssaverActivateAfter, lastRenderTime,
                   lastHitTestTime, minRenderIntervalMsec, minHitTestIntervalMsec, now>>

\* WindowManager::displayToWindow(win, Point&)
DisplayToWindowPoint(w, pt) ==
    /\ win[w].used
    /\ lastOp' = [OpRec("displayToWindowPoint", w, pt.x, pt.y,
                        displayToWindowPoint(World, w, pt).ok) EXCEPT
                     !.out = [ZeroRect EXCEPT
                                 !.left = displayToWindowPoint(World, w, pt).pt.x,
                                 !.top = displayToWindowPoint(World, w, pt).pt.y]]
    /\ UNCHANGED <<geoVars, thr, treeVars, wmVars>>

\* WindowManager::windowToDisplay(win, Point&)
WindowToDisplayPoint(w, pt) ==
    /\ win[w].used
    /\ lastOp' = [OpRec("windowToDisplayPoint", w, pt.x, pt.y,
                        windowToDisplayPoint(World, w, pt).ok) EXCEPT
                     !.out = [ZeroRect EXCEPT
                                 !.left = windowToDisplayPoint(World, w, pt).pt.x,
                                 !.top = windowToDisplayPoint(World, w, pt).pt.y]]
    /\ UNCHANGED <<geoVars, thr, treeVars, wmVars>>

\* WindowManager::displayToWindow(win, Rect&)
DisplayToWindowRect(w, rect) ==
    /\ win[w].used
    /\ lastOp' = [OpRec("displayToWindowRect", w, 0, 0,
                        displayToWindow(World, w, rect).ok) EXCEPT
                     !.rect = rect, !.out = displayToWindow(World, w, rect).rect]
    /\ UNCHANGED <<geoVars, thr, treeVars, wmVars>>

\* WindowManager::windowToDisplay(win, Rect&)
WindowToDisplayRect(w, rect) ==
    /\ win[w].used
    /\ lastOp' = [OpRec("windowToDisplayRect", w, 0, 0,
                        windowToDisplay(World, w, rect).ok) EXCEPT
                     !.rect = rect, !.out = windowToDisplay(World, w, rect).rect]
    /\ UNCHANGED <<geoVars, thr, treeVars, wmVars>>

\* WindowManager::tearDown()
TearDown ==
    /\ win' = tearDown(World).win
    /\ registry' = tearDown(World).reg
    /\ lastOp' = OpRec("tearDown", 0, 0, 0, TRUE)
    /\ UNCHANGED <<geoVars, thr, wmVars>>

\* The calls of twm.h.
TwmCreateWindow(parent, id, style, x, y, width0, height0, hookOk) ==
    /\ freeSlot(World) # 0
    /\ parent # 0 => win[parent].used
    /\ LET called == [OpRec("createWindow", 0, 0, 0, FALSE) EXCEPT
                         !.parent = parent, !.id = id, !.style = style,
                         !.hookOk = hookOk]
           done(a) == /\ win' = a.win
                      /\ registry' = a.reg
                      /\ lastOp' = [called EXCEPT !.w = a.r, !.ret = (a.r # 0)]
       IN  done(twm_createWindow(World, parent, id, style, x, y, width0, height0, hookOk))
    /\ UNCHANGED <<geoVars, thr, wmVars>>

TwmHide(w) ==
    /\ win[w].used
    /\ Done(twm_hide(World, w), "hide", w, 0, 0)

TwmShow(w) ==
    /\ win[w].used
    /\ Done(twm_show(World, w), "show", w, 0, 0)

TwmDestroy(w) ==
    /\ win[w].used
    /\ Done(twm_destroy(World, w), "destroy", w, 0, 0)

TwmTearDown ==
    /\ win' = twm_tearDown(World).win
    /\ registry' = twm_tearDown(World).reg
    /\ lastOp' = OpRec("tearDown", 0, 0, 0, TRUE)
    /\ UNCHANGED <<geoVars, thr, wmVars>>

\* parent->addChild(w) for a child that was removed from its parent.
AddChild(w) ==
    /\ win[w].used
    /\ win[w].parent # 0
    /\ Done(addChild(World, win[w].parent, w), "addChild", w, 0, 0)

\* ------------------------------------------------- z-order specification
\* Windows are created, removed from their parent, added again and brought
\* to the foreground; ids are drawn from Ids, so duplicates are attempted,
\* and a top-level window is also asked for with the reserved id.
Ids == 1..MaxWin

ZInit == GeoIdle /\ WmInit(0, 0)

ZCreateTopLevel ==
    \E id \in Ids \cup {WID_INVALID}, hookOk \in BOOLEAN :
        CreateWindow(0, id, STY_TOPLEVEL \cup STY_VISIBLE, 0, 0, 1, 1, hookOk)

ZCreateChild ==
    \E parent \in Slots, id \in Ids :
        CreateWindow(parent, id, STY_CHILD \cup STY_VISIBLE, 0, 0, 1, 1, TRUE)

ZRemoveChildByID == \E parent \in Slots, id \in Ids : RemoveChildByID(parent, id)

ZAddChild == \E w \in Slots : AddChild(w)

ZSetForegroundWindow == \E w \in Slots : SetForegroundWindow(w)

ZNext ==
    \/ ZCreateTopLevel
    \/ ZCreateChild
    \/ ZRemoveChildByID
    \/ ZAddChild
    \/ ZSetForegroundWindow

SpecZ == ZInit /\ [][ZNext]_vars

\* --------------------------------------------- window tree specification
\* Visible windows are created, hidden, shown and destroyed. A placement is
\* <<x, y, width, height>>: inside the display, larger than the display on
\* every side, a bar that crosses the display, and beyond the display.
TreePlacements ==
    {<<0, 0, 1, 1>>,
     <<0 - 1, 0 - 1, DisplayWidth + 2, DisplayHeight + 2>>,
     <<0 - 1, 0, DisplayWidth + 2, 1>>,
     <<DisplayWidth + 1, 0, 1, 1>>}

TreeInit == GeoIdle /\ WmInit(0, 0)

TreeCreateTopLevel ==
    \E p \in TreePlacements :
        CreateWindow(0, freeSlot(World), STY_TOPLEVEL \cup STY_VISIBLE,
                     p[1], p[2], p[3], p[4], TRUE)

TreeCreateChild ==
    \E parent \in Slots, p \in TreePlacements :
        CreateWindow(parent, freeSlot(World), STY_CHILD \cup STY_VISIBLE,
                     p[1], p[2], p[3], p[4], TRUE)

TreeHide == \E w \in Slots : Hide(w)

TreeShow == \E w \in Slots : Show(w)

TreeDestroy == \E w \in Slots : Destroy(w)

TreeNext ==
    \/ TreeCreateTopLevel
    \/ TreeCreateChild
    \/ TreeHide
    \/ TreeShow
    \/ TreeDestroy

SpecTree == TreeInit /\ [][TreeNext]_vars

\* ------------------------------------------------ hit test specification
\* Overlapping windows are created and hidden while taps arrive;
\* the manager rate-limits taps to one per millisecond. A placement is
\* <<x, y, width, height>>: the whole display, its top left cell, and its
\* right half.
HitPlacements ==
    {<<0, 0, DisplayWidth, DisplayHeight>>, <<0, 0, 1, 1>>,
     <<1, 0, DisplayWidth - 1, DisplayHeight>>}

\* The points tapped: <<x, y>> in the top left cell, in the middle where all
\* placements meet, and in the bottom right corner.
HitPoints == {<<0, 0>>, <<1, 1>>, <<DisplayWidth, DisplayHeight>>}

HitInit == GeoIdle /\ WmInit(0, 1)

HitCreateTopLevel ==
    \E p \in HitPlacements :
        CreateWindow(0, freeSlot(World), STY_TOPLEVEL \cup STY_VISIBLE,
                     p[1], p[2], p[3], p[4], TRUE)

HitCreateChild ==
    \E parent \in Slots, p \in HitPlacements :
        CreateWindow(parent, freeSlot(World), STY_CHILD \cup STY_VISIBLE,
                     p[1], p[2], p[3], p[4], TRUE)

HitHide == \E w \in Slots : Hide(w)

HitHitTest == \E p \in HitPoints : HitTest(p[1], p[2])

HitNext ==
    \/ HitCreateTopLevel
    \/ HitCreateChild
    \/ HitHide
    \/ HitHitTest
    \/ Tick

SpecHit == HitInit /\ [][HitNext]_vars

\* -------------------------------------------------- render specification
\* Overlapping windows are created and invalidated between render passes; the
\* manager does not rate-limit the passes. A placement is
\* <<x, y, width, height>>: the bottom right cell, the whole display, and the
\* left half; a child may be placed beyond its parent.
RenderPlacements ==
    {<<1, 1, DisplayWidth - 1, DisplayHeight - 1>>,
     <<0, 0, DisplayWidth, DisplayHeight>>,
     <<0, 0, 1, DisplayHeight>>}

RenderInit == GeoIdle /\ WmInit(0, 0)

RenderCreateTopLevel ==
    \E p \in RenderPlacements :
        CreateWindow(0, freeSlot(World), STY_TOPLEVEL \cup STY_VISIBLE,
                     p[1], p[2], p[3], p[4], TRUE)

RenderCreateChild ==
    \E parent \in Slots, p \in RenderPlacements :
        CreateWindow(parent, freeSlot(World), STY_CHILD \cup STY_VISIBLE,
                     p[1], p[2], p[3], p[4], TRUE)

RenderSetDirty == \E w \in Slots : SetDirty(w)

RenderHide == \E w \in Slots : Hide(w)

RenderNext ==
    \/ RenderCreateTopLevel
    \/ RenderCreateChild
    \/ RenderSetDirty
    \/ RenderHide
    \/ Render

SpecRender == RenderInit /\ [][RenderNext]_vars

\* --------------------------------------------- message queue specification
\* Windows are created and tapped, and render passes drain the queues; the
\* manager limits neither taps nor passes, so several taps may be pending
\* when a pass starts.
QueueInit == GeoIdle /\ WmInit(0, 0)

QueueCreateTopLevel ==
    \E p \in HitPlacements :
        CreateWindow(0, freeSlot(World), STY_TOPLEVEL \cup STY_VISIBLE,
                     p[1], p[2], p[3], p[4], TRUE)

QueueCreateChild ==
    \E parent \in Slots, p \in HitPlacements :
        CreateWindow(parent, freeSlot(World), STY_CHILD \cup STY_VISIBLE,
                     p[1], p[2], p[3], p[4], TRUE)

QueueHitTest == \E p \in HitPoints : HitTest(p[1], p[2])

QueueNext ==
    \/ QueueCreateTopLevel
    \/ QueueCreateChild
    \/ QueueHitTest
    \/ Render

SpecQueue == QueueInit /\ [][QueueNext]_vars

\* ------------------------------------------------ creation specification
\* Windows and prompts are created with every kind of argument: the reserved
\* id, ids that are taken, a child style without a parent, a top-level style
\* with one, a hook that refuses; render passes in between clear the dirty
\* rects. A call that ends the program is the last one.
CreateIds == 0..2

CreateStyles == {STY_TOPLEVEL \cup STY_VISIBLE, STY_CHILD \cup STY_VISIBLE}

\* <<x, y, width, height>>: the whole display and its left half.
CreatePlacements == {<<0, 0, DisplayWidth, DisplayHeight>>, <<0, 0, 1, DisplayHeight>>}

\* The button ids handed to createPrompt: none, the reserved id, the id the
\* prompt gives its label, and a free id.
CreateButtons == {<<>>, <<WID_INVALID>>, <<LabelID>>, <<2>>}

CreateInit == GeoIdle /\ WmInit(0, 0)

CreateCreateWindow ==
    /\ ~lastOp.halted
    /\ \E parent \in 0..MaxWin, id \in CreateIds, style \in CreateStyles,
          p \in CreatePlacements, hookOk \in BOOLEAN :
           CreateWindow(parent, id, style, p[1], p[2], p[3], p[4], hookOk)

CreateCreatePrompt ==
    /\ ~lastOp.halted
    /\ \E id \in CreateIds, buttons \in CreateButtons :
           CreatePrompt(0, id, STY_PROMPT \cup STY_VISIBLE, buttons)

CreateRender == ~lastOp.halted /\ Render

CreateNext ==
    \/ CreateCreateWindow
    \/ CreateCreatePrompt
    \/ CreateRender

SpecCreate == CreateInit /\ [][CreateNext]_vars

\* ------------------------------------------------ lifecycle specification
\* Windows that fill the display are created with ids that are asked for
\* again, shown, hidden, invalidated, tapped, rendered and destroyed, one by
\* one or all at once by tearDown.
LifeMaxId == 1      \* the ids asked for are 1..LifeMaxId
LifeMaxQueue == 1   \* a tap is offered while fewer messages are pending

LifeIds == 1..LifeMaxId

LifeInit == GeoIdle /\ WmInit(0, 0)

LifeCreateTopLevel ==
    \E id \in LifeIds :
        CreateWindow(0, id, STY_TOPLEVEL \cup STY_VISIBLE,
                     0, 0, DisplayWidth, DisplayHeight, TRUE)

LifeCreateChild ==
    \E parent \in Slots, id \in LifeIds :
        CreateWindow(parent, id, STY_CHILD \cup STY_VISIBLE,
                     0, 0, DisplayWidth, DisplayHeight, TRUE)

LifeDestroy == \E w \in Slots : Destroy(w)

LifeShow == \E w \in Slots : Show(w)

LifeHide == \E w \in Slots : Hide(w)

LifeSetDirty == \E w \in Slots : SetDirty(w)

LifeHitTest == SumQueues(win, MaxWin) < LifeMaxQueue /\ HitTest(0, 0)

LifeNext ==
    \/ LifeCreateTopLevel
    \/ LifeCreateChild
    \/ LifeDestroy
    \/ LifeShow
    \/ LifeHide
    \/ LifeSetDirty
    \/ LifeHitTest
    \/ Render
    \/ TearDown

SpecLife == LifeInit /\ [][LifeNext]_vars

\* ------------------------------------------------- twm.h specification
\* The windows of the older header are created, hidden, shown and destroyed.
TwmIds == 1..2

TwmInit == GeoIdle /\ WmInit(0, 0)

TwmCreateTopLevel ==
    \E id \in TwmIds, hookOk \in BOOLEAN :
        TwmCreateWindow(0, id, STY_TOPLEVEL \cup STY_VISIBLE,
                        0, 0, DisplayWidth, DisplayHeight, hookOk)

TwmCreateChild ==
    \E parent \in Slots, id \in TwmIds :
        TwmCreateWindow(parent, id, STY_CHILD \cup STY_VISIBLE,
                        0, 0, DisplayWidth, DisplayHeight, TRUE)

TwmHideAny == \E w \in Slots : TwmHide(w)

TwmShowAny == \E w \in Slots : TwmShow(w)

TwmDestroyAny == \E w \in Slots : TwmDestroy(w)

TwmNext ==
    \/ TwmCreateTopLevel
    \/ TwmCreateChild
    \/ TwmHideAny
    \/ TwmShowAny
    \/ TwmDestroyAny
    \/ TwmTearDown

SpecTwm == TwmInit /\ [][TwmNext]_vars

\* ------------------------------------------------ dirty rect specification
\* Top-level windows are created, hidden and rendered, and regions of the
\* display are invalidated through the manager. The regions are the
\* rectangles with corners on the display's grid, and one that reaches
\* beyond the display.
DirtyRegions ==
    {rect \in {Rect(l, t, r, b) : l \in 0..(DisplayWidth - 1), t \in 0..(DisplayHeight - 1),
                                  r \in 1..DisplayWidth, b \in 1..DisplayHeight} :
        ~empty(rect)}
    \cup {Rect(0, 0, DisplayWidth + 1, DisplayHeight + 1)}

\* The placements <<x, y, width, height>>: the whole display and its left half.
DirtyPlacements ==
    {<<0, 0, DisplayWidth, DisplayHeight>>,
     <<0, 0, 1, DisplayHeight>>}

DirtyInit == GeoIdle /\ WmInit(0, 0)

DirtyCreateTopLevel ==
    \E p \in DirtyPlacements :
        CreateWindow(0, freeSlot(World), STY_TOPLEVEL \cup STY_VISIBLE,
                     p[1], p[2], p[3], p[4], TRUE)

DirtyHide == \E w \in Slots : Hide(w)

DirtySetDirtyRect == \E rect \in DirtyRegions : SetDirtyRect(rect)

DirtyNext ==
    \/ DirtyCreateTopLevel
    \/ DirtyHide
    \/ DirtySetDirtyRect
    \/ Render

SpecDirty == DirtyInit /\ [][DirtyNext]_vars

\* ------------------------------------------------ screensaver specification
\* Time passes while top-level windows are created, hidden, invalidated,
\* tapped and rendered and the screensaver is enabled and disabled; render
\* passes and hit tests are rate-limited.
SaverMaxWin == 2          \* windows created in this specification
SaverMinRender == 1       \* _config.minRenderIntervalMsec
SaverMinHitTest == 2      \* _config.minHitTestIntervalMsec

SaverDelays == 1..MaxTime

SaverInit == GeoIdle /\ WmInit(SaverMinRender, SaverMinHitTest)

SaverCreateTopLevel ==
    \E p \in DirtyPlacements :
        Len(registry) < SaverMaxWin /\
        CreateWindow(0, freeSlot(World), STY_TOPLEVEL \cup STY_VISIBLE,
                     p[1], p[2], p[3], p[4], TRUE)

SaverHide == \E w \in Slots : Hide(w)

SaverSetDirty == \E w \in Slots : SetDirty(w)

SaverHitTest == HitTest(0, 0)

SaverEnable == \E activateAfterMsec \in SaverDelays : EnableScreensaver(activateAfterMsec)

SaverNext ==
    \/ SaverCreateTopLevel
    \/ SaverHide
    \/ SaverSetDirty
    \/ SaverHitTest
    \/ SaverEnable
    \/ DisableScreensaver
    \/ Render
    \/ Tick

SpecSaver == SaverInit /\ [][SaverNext]_vars

\* ------------------------------------------------ conversion specification
\* One top-level window is created and then one point or rectangle is
\* converted between display and window coordinates.
\* The coordinates of the points: around the origin and at both ends of Coord.
ConvCoords == {0 - TwoTo15, 0 - 1, 0, 1, 2, 3, TwoTo15 - 1}

ConvPoints == {[x |-> x, y |-> y] : x \in ConvCoords, y \in {0 - 1, 0, 1, 3}}

\* The rectangles converted: any two points as the corners.
ConvRects ==
    {[left |-> a.x, top |-> a.y, right |-> b.x, bottom |-> b.y] :
        a \in ConvPoints, b \in ConvPoints}

\* The placements <<x, y, width, height>>: on the display, off its origin,
\* left of it, and at both ends of Coord and Extent.
ConvPlacements ==
    {<<0, 0, DisplayWidth, DisplayHeight>>,
     <<1, 1, 2, 2>>,
     <<0 - 1, 0, 2, 1>>,
     <<TwoTo15 - 3, 0, 2, 1>>,
     <<TwoTo15 - 1, 0, 2, 1>>,
     <<0 - TwoTo15, 0, TwoTo16 - 1, 1>>}

ConvInit == GeoIdle /\ WmInit(0, 0)

ConvCreateTopLevel ==
    \E p \in ConvPlacements :
        registry = <<>> /\
        CreateWindow(0, freeSlot(World), STY_TOPLEVEL \cup STY_VISIBLE,
                     p[1], p[2], p[3], p[4], TRUE)

ConvDisplayToWindowPoint ==
    \E w \in Slots, pt \in ConvPoints :
        lastOp.op = "createWindow" /\ DisplayToWindowPoint(w, pt)

ConvWindowToDisplayPoint ==
    \E w \in Slots, pt \in ConvPoints :
        lastOp.op = "createWindow" /\ WindowToDisplayPoint(w, pt)

ConvDisplayToWindowRect ==
    \E w \in Slots, rect \in ConvRects :
        lastOp.op = "createWindow" /\ DisplayToWindowRect(w, rect)

ConvWindowToDisplayRect ==
    \E w \in Slots, rect \in ConvRects :
        lastOp.op = "createWindow" /\ WindowToDisplayRect(w, rect)

ConvNext ==
    \/ ConvCreateTopLevel
    \/ ConvDisplayToWindowPoint
    \/ ConvWindowToDisplayPoint
    \/ ConvDisplayToWindowRect
    \/ ConvWindowToDisplayRect

SpecConv == ConvInit /\ [][ConvNext]_vars

\* ---------------------------------------------------- prompt specification
\* A prompt is created without buttons of its own (the buttons the theme
\* lays out are at least METRIC_DEF_BUTTON_CX wide and have no corner on this
\* display, so they are never drawable); buttons are created as its children
\* over the prompt's rect, windows are hidden and shown, and taps and render
\* passes follow in any order.
PromptIds == 2..3

\* <<x, y, width, height>>: the prompt's rect and its top-left cell.
PromptPlacements ==
    {<<DisplayWidth \div 2, DisplayHeight \div 2, 1, 1>>,
     <<DisplayWidth \div 2, DisplayHeight \div 2, 0, 0>>}

PromptInit == GeoIdle /\ WmInit(0, 0)

PromptCreatePrompt ==
    \E id \in PromptIds :
        registry = <<>> /\ CreatePrompt(0, id, STY_PROMPT \cup STY_VISIBLE, <<>>)

PromptCreateButton ==
    \E parent \in Slots, id \in PromptIds, p \in PromptPlacements :
        win[parent].kind = "Prompt" /\
        CreateButton(parent, id, STY_CHILD \cup STY_VISIBLE \cup STY_BUTTON,
                     p[1], p[2], p[3], p[4])

PromptHide == \E w \in Slots : Hide(w)

PromptShow == \E w \in Slots : Show(w)

PromptHitTest == \E p \in HitPoints : HitTest(p[1], p[2])

PromptNext ==
    \/ PromptCreatePrompt
    \/ PromptCreateButton
    \/ PromptHide
    \/ PromptShow
    \/ PromptHitTest
    \/ Render

SpecPrompt == PromptInit /\ [][PromptNext]_vars

\* ----------------------------------------------- dispatch specification
\* Windows and buttons are created in trees up to three deep and tapped, and
\* processQueue is called on any window, one call at a time.
DispatchInit == GeoIdle /\ WmInit(0, 0)

DispatchCreateTopLevel ==
    \E p \in HitPlacements :
        CreateWindow(0, freeSlot(World), STY_TOPLEVEL \cup STY_VISIBLE,
                     p[1], p[2], p[3], p[4], TRUE)

DispatchCreateChild ==
    \E parent \in Slots, p \in HitPlacements :
        CreateWindow(parent, freeSlot(World), STY_CHILD \cup STY_VISIBLE,
                     p[1], p[2], p[3], p[4], TRUE)

DispatchCreateButton ==
    \E parent \in Slots, p \in HitPlacements :
        CreateButton(parent, freeSlot(World),
                     STY_CHILD \cup STY_VISIBLE \cup STY_BUTTON,
                     p[1], p[2], p[3], p[4])

DispatchHitTest == \E p \in HitPoints : HitTest(p[1], p[2])

DispatchProcessQueue == \E w \in Slots : ProcessQueue(w)

DispatchNext ==
    \/ DispatchCreateTopLevel
    \/ DispatchCreateChild
    \/ DispatchCreateButton
    \/ DispatchHitTest
    \/ DispatchProcessQueue

SpecDispatch == DispatchInit /\ [][DispatchNext]_vars

\* ------------------------------------------------- drawing specification
\* Windows and progress bars are created in trees up to three deep, hidden
\* and destroyed, marked dirty with and without an immediate redraw, and
\* redrawn with and without force.
BarStyles == {{}, PBR_NORMAL, PBR_INDETERMINATE}

DrawInit == GeoIdle /\ WmInit(0, 0)

DrawCreateTopLevel ==
    /\ registry = <<>>
    /\ CreateWindow(0, freeSlot(World), STY_TOPLEVEL \cup STY_VISIBLE,
                    0, 0, DisplayWidth, DisplayHeight, TRUE)

DrawCreateChild ==
    \E parent \in Slots, p \in DirtyPlacements :
        CreateWindow(parent, freeSlot(World), STY_CHILD \cup STY_VISIBLE,
                     p[1], p[2], p[3], p[4], TRUE)

DrawCreateProgressBar ==
    \E parent \in Slots, p \in DirtyPlacements, pbarStyle \in BarStyles :
        CreateProgressBar(parent, freeSlot(World), STY_CHILD \cup STY_VISIBLE,
                          p[1], p[2], p[3], p[4], pbarStyle)

DrawHide == \E w \in Slots : Hide(w)

DrawDestroy == \E w \in Slots : Destroy(w)

DrawSetDirty == \E w \in Slots, redrawWindow \in BOOLEAN : SetDirtyRedraw(w, redrawWindow)

DrawRedraw == \E w \in Slots, force \in BOOLEAN : Redraw(w, force)

DrawNext ==
    \/ DrawCreateTopLevel
    \/ DrawCreateChild
    \/ DrawCreateProgressBar
    \/ DrawHide
    \/ DrawDestroy
    \/ DrawSetDirty
    \/ DrawRedraw

SpecDraw == DrawInit /\ [][DrawNext]_vars

\* ------------------------------------------------- repaint specification
\* One top-level window fills the display; children and grandchildren
\* inside it are created and marked dirty with an immediate redraw between
\* render passes.
RepaintPlacements ==
    {<<0, 0, DisplayWidth, DisplayHeight>>,
     <<0, 0, 1, DisplayHeight>>,
     <<1, 1, DisplayWidth - 1, DisplayHeight - 1>>}

RepaintInit == GeoIdle /\ WmInit(0, 0)

RepaintCreateTopLevel ==
    /\ registry = <<>>
    /\ CreateWindow(0, freeSlot(World), STY_TOPLEVEL \cup STY_VISIBLE,
                    0, 0, DisplayWidth, DisplayHeight, TRUE)

RepaintCreateChild ==
    \E parent \in Slots, p \in RepaintPlacements :
        CreateWindow(parent, freeSlot(World), STY_CHILD \cup STY_VISIBLE,
                     p[1], p[2], p[3], p[4], TRUE)

RepaintSetDirty == \E w \in Slots : SetDirtyRedraw(w, TRUE)

RepaintNext ==
    \/ RepaintCreateTopLevel
    \/ RepaintCreateChild
    \/ RepaintSetDirty
    \/ Render

SpecRepaint == RepaintInit /\ [][RepaintNext]_vars

\* ------------------------------------------------- pending specification
\* Windows and buttons are created in trees up to three deep and tapped, and
\* render passes are executed again and again: the screensaver is off and
\* the manager limits neither taps nor passes; the application calls the
\* pass from its main loop, so a pass that finds a message waiting is taken
\* sooner or later.
PendingInit == GeoIdle /\ WmInit(0, 0)

PendingCreateTopLevel ==
    /\ registry = <<>>
    /\ CreateWindow(0, freeSlot(World), STY_TOPLEVEL \cup STY_VISIBLE,
                    0, 0, DisplayWidth, DisplayHeight, TRUE)

PendingCreateChild ==
    \E parent \in Slots, p \in HitPlacements :
        CreateWindow(parent, freeSlot(World), STY_CHILD \cup STY_VISIBLE,
                     p[1], p[2], p[3], p[4], TRUE)

PendingCreateButton ==
    \E parent \in Slots, p \in HitPlacements :
        CreateButton(parent, freeSlot(World),
                     STY_CHILD \cup STY_VISIBLE \cup STY_BUTTON,
                     p[1], p[2], p[3], p[4])

PendingHitTest == \E p \in HitPoints : HitTest(p[1], p[2])

PendingNext ==
    \/ PendingCreateTopLevel
    \/ PendingCreateChild
    \/ PendingCreateButton
    \/ PendingHitTest
    \/ Render

\* A message is waiting at a window (every window of this specification is
\* in the tree and stays there).
MessagePending == \E w \in Slots : win[w].used /\ win[w].queue # <<>>

\* Weak fairness of the render pass, WF_vars(Render), written out with
\* MessagePending in the place of ENABLED <<Render>>_vars (a pass changes the
\* state whenever a message is waiting in the tree): again and again no
\* message is waiting, or again and again a pass is taken.
PendingFairness == []<>(~MessagePending) \/ []<><<Render>>_vars

SpecPending == PendingInit /\ [][PendingNext]_vars /\ PendingFairness

\* ------------------------------------------------- geometry specification
GeoCoords == (0 - 1)..MaxGeoCoord

\* Well-formed rectangles (right >= left, bottom >= top) over GeoCoords.
GeoRects ==
    {[left |-> l, top |-> t, right |-> r, bottom |-> b] :
        l \in GeoCoords, t \in GeoCoords, r \in GeoCoords, b \in GeoCoords}
    \ {q \in [left : GeoCoords, top : GeoCoords, right : GeoCoords, bottom : GeoCoords] :
        q.right < q.left \/ q.bottom < q.top}

\* The two windows of the overlap scenario.
ScenarioA == Rect(0, 0, 100, 100)
ScenarioB == Rect(50, 50, 150, 150)

\* The rectangles of GeoRects that hold at least one cell.
SolidRects == {q \in GeoRects : q.left < q.right /\ q.top < q.bottom}

GeoInit ==
    /\ \/ (geoA = ScenarioA /\ geoB = ScenarioB)
       \/ (geoA \in SolidRects /\ geoB \in SolidRects)
       \/ (geoA \in GeoRects /\ geoB \in GeoRects
           /\ (geoA \notin SolidRects \/ geoB \notin SolidRects))
    /\ geoOp = "none"
    /\ geoRects = <<>>
    /\ geoFlag = <<FALSE, FALSE>>
    /\ WmInit(0, 0)

GeoSubtract ==
    /\ geoOp = "none"
    /\ geoOp' = "subtractRect"
    /\ geoRects' = subtractRect(geoA, geoB)
    /\ UNCHANGED <<geoA, geoB, geoFlag, treeVars, wmVars, thr, lastOp>>

GeoIntersects ==
    /\ geoOp = "none"
    /\ geoOp' = "intersectsRect"
    /\ geoFlag' = <<intersectsRect(geoA, geoB), intersectsRect(geoB, geoA)>>
    /\ UNCHANGED <<geoA, geoB, geoRects, treeVars, wmVars, thr, lastOp>>

GeoNext == GeoSubtract \/ GeoIntersects

SpecRect == GeoInit /\ [][GeoNext]_vars

\* ================================================================ claims
\* ---- helpers of the geometry claims
\* The unit cell whose low corner is (x, y) lies in r: the pixels a rect stands
\* for are [left, right) x [top, bottom), so rectangles are compared "modulo
\* boundary pixels" by the cells they hold.
HasCell(r, x, y) == r.left <= x /\ x < r.right /\ r.top <= y /\ y < r.bottom

\* Every edge coordinate of the operands and of the result. Between two
\* consecutive edge coordinates no rectangle begins or ends, so the cells at
\* these coordinates stand for all cells.
EdgeXs ==
    {geoA.left, geoA.right, geoB.left, geoB.right}
    \cup {geoRects[i].left : i \in DOMAIN geoRects}
    \cup {geoRects[i].right : i \in DOMAIN geoRects}

EdgeYs ==
    {geoA.top, geoA.bottom, geoB.top, geoB.bottom}
    \cup {geoRects[i].top : i \in DOMAIN geoRects}
    \cup {geoRects[i].bottom : i \in DOMAIN geoRects}

\* Two rectangles hold a common cell.
ShareCell(p, q) ==
    /\ max(p.left, q.left) < min(p.right, q.right)
    /\ max(p.top, q.top) < min(p.bottom, q.bottom)

\* Two closed rectangles hold a common point.
SharePoint(p, q) ==
    /\ p.left <= q.right /\ q.left <= p.right
    /\ p.top <= q.bottom /\ q.top <= p.bottom

\* C1: the rectangles returned by A.subtractRect(B) cover exactly the cells of
\* A that are not cells of B.
C1_SubtractCoversDifference ==
    geoOp = "subtractRect" =>
        \A x \in EdgeXs, y \in EdgeYs :
            (\E i \in DOMAIN geoRects : HasCell(geoRects[i], x, y))
                <=> (HasCell(geoA, x, y) /\ ~HasCell(geoB, x, y))

\* C2: the rectangles returned by A.subtractRect(B) are pairwise
\* non-overlapping and none is returned twice.
C2_SubtractDisjoint ==
    geoOp = "subtractRect" =>
        \A i \in DOMAIN geoRects, j \in DOMAIN geoRects :
            i < j => (~ShareCell(geoRects[i], geoRects[j])
                      /\ geoRects[i] # geoRects[j])

\* C3: if A and B do not intersect, A.subtractRect(B) returns exactly <<A>>.
C3_SubtractDisjointReturnsA ==
    (geoOp = "subtractRect" /\ ~SharePoint(geoA, geoB)) => geoRects = <<geoA>>

\* C4: A.intersectsRect(B) is true iff the closed rectangles share a point,
\* and the result is the same with A and B swapped.
C4_IntersectsIffSharePoint ==
    geoOp = "intersectsRect" =>
        /\ geoFlag[1] = SharePoint(geoA, geoB)
        /\ geoFlag[2] = geoFlag[1]

\* C4 witness: two bars that cross with no corner of either inside the other,
\* reported as intersecting.
C4_Witness ==
    /\ geoOp = "intersectsRect"
    /\ geoFlag[1]
    /\ outsideRect(geoA, geoB)
    /\ outsideRect(geoB, geoA)

\* The containers that exist: 0 is the manager's registry, w is Window w.
Containers == {0} \cup {w \in Slots : win[w].used}

\* The z-orders of container c's children, in forward (paint) order.
ZOrders(c) ==
    LET kids == getChildren(World, c)
    IN  [i \in DOMAIN kids |-> win[kids[i]].zOrder]

\* C5: in every container the z-orders of the N children are 0..N-1 in
\* forward order, after every add, remove and bring-to-foreground; a child
\* just added holds the greatest z-order, one more than the maximum before
\* (0 in an empty container).
C5_ZOrderContiguous ==
    /\ \A c \in Containers :
          \A i \in DOMAIN ZOrders(c) : ZOrders(c)[i] = i - 1
    /\ (lastOp.op \in {"createWindow", "addChild"} /\ lastOp.ret) =>
          LET kids == getChildren(World, win[lastOp.w].parent)
          IN  /\ kids # <<>>
              /\ kids[Len(kids)] = lastOp.w
              /\ win[lastOp.w].zOrder = Len(kids) - 1

\* A window was brought to the foreground from behind another one, in a
\* registry of three.
C5_Witness ==
    /\ lastOp.op = "setForegroundWindow"
    /\ lastOp.ret
    /\ Len(registry) = 3
    /\ registry[3] = lastOp.w
    /\ registry[3] < registry[2]

\* What a window's own fields say about drawing it: visible, alive, and not
\* placed outside the display by the windowing code's test.
OwnFlagsAllow(s, w) ==
    isVisible(s, w) /\ isAlive(s, w) /\ ~outsideRect(s.win[w].rect, getDisplayRect)

RECURSIVE IsDescendant(_, _, _)
\* Window d lies below window p, following the parent links.
IsDescendant(s, d, p) ==
    /\ s.win[d].parent # 0
    /\ (s.win[d].parent = p \/ IsDescendant(s, s.win[d].parent, p))

RECURSIVE PathAllows(_, _, _)
\* Every window from d up to, not including, its ancestor p has own flags
\* that allow drawing.
PathAllows(s, d, p) ==
    d = p \/ (OwnFlagsAllow(s, d) /\ PathAllows(s, s.win[d].parent, p))

\* The world after the step.
WorldAfter == [win |-> win', reg |-> registry', r |-> FALSE, log |-> <<>>]

\* C6: after every step no child is drawable while its parent is not; a
\* hide() of a window leaves every window below it non-drawable and changes
\* no other window's style; after a show() of a window the windows below it
\* are drawable exactly when the window is and the own flags from them up to
\* it allow it.
C6_SubtreeFollowsParent ==
    [][/\ \A w \in Slots :
            (win'[w].used /\ win'[w].parent # 0 /\ isDrawable(WorldAfter, w))
                => isDrawable(WorldAfter, win'[w].parent)
       /\ lastOp'.op = "hide" =>
            /\ \A d \in Slots :
                  (win'[d].used /\ IsDescendant(WorldAfter, d, lastOp'.w))
                      => ~isDrawable(WorldAfter, d)
            /\ \A v \in Slots \ {lastOp'.w} : win'[v].style = win[v].style
       /\ lastOp'.op = "show" =>
            \A d \in Slots :
                (win'[d].used /\ IsDescendant(WorldAfter, d, lastOp'.w))
                    => (isDrawable(WorldAfter, d)
                          <=> (isDrawable(WorldAfter, lastOp'.w)
                               /\ PathAllows(WorldAfter, d, lastOp'.w)))
      ]_vars

\* A parent was hidden and shown again: its visible child is drawable again,
\* its hidden child is not.
C6_Witness ==
    /\ lastOp.op = "show"
    /\ lastOp.ret
    /\ isDrawable(World, lastOp.w)
    /\ \E d, e \in Slots :
          /\ win[d].used /\ win[d].parent = lastOp.w /\ isDrawable(World, d)
          /\ win[e].used /\ win[e].parent = lastOp.w
          /\ ~bitsHigh(win[e].style, STY_VISIBLE)
          /\ ~isDrawable(World, e)

\* C7: a window is drawable exactly when it is visible and alive, has no
\* parent or a drawable one, and its rect shares a point with the display
\* rect.
C7_DrawableIffOnDisplay ==
    \A w \in Slots :
        win[w].used =>
            (isDrawable(World, w)
                <=> /\ isVisible(World, w)
                    /\ isAlive(World, w)
                    /\ (win[w].parent = 0 \/ isDrawable(World, win[w].parent))
                    /\ SharePoint(win[w].rect, getDisplayRect))

\* The INPUT message a tap at (x, y) queues.
TapMessage(x, y) ==
    [msg |-> "MSG_INPUT", p1 |-> makeMsgParam(0, INPUT_TAP), p2 |-> makeMsgParam(x, y)]

\* The windows whose queue the step changed.
QueueChanged == {w \in Slots : win'[w].queue # win[w].queue}

\* C8: a hitTest call appends nothing, or one INPUT message to the queue of
\* one window, over the whole tree.
C8_AtMostOneClaim ==
    [][lastOp'.op = "hitTest" =>
          /\ Cardinality(QueueChanged) <= 1
          /\ \A w \in QueueChanged :
                win'[w].queue = Append(win[w].queue, TapMessage(lastOp'.x, lastOp'.y))
          /\ SumQueues(win', MaxWin) - SumQueues(win, MaxWin) \in {0, 1}
      ]_vars

\* A tap landed on a point that a top-level window, its child and its
\* grandchild all hold, and one message was queued.
C8_Witness ==
    /\ lastOp.op = "hitTest"
    /\ lastOp.ret
    /\ SumQueues(win, MaxWin) = 1
    /\ \E a, b, c \in Slots :
          /\ win[a].used /\ win[b].used /\ win[c].used
          /\ win[b].parent = a /\ win[c].parent = b
          /\ \A v \in {a, b, c} :
                isDrawable(World, v) /\ pointWithin(win[v].rect, lastOp.x, lastOp.y)

\* The drawable windows among kids whose rect holds the point.
Candidates(s, kids, x, y) ==
    {w \in {kids[i] : i \in DOMAIN kids} :
        isDrawable(s, w) /\ pointWithin(s.win[w].rect, x, y)}

\* The window of the greatest z-order in a non-empty set.
Topmost(s, ws) == CHOOSE w \in ws : \A v \in ws : s.win[v].zOrder <= s.win[w].zOrder

RECURSIVE Deepest(_, _, _, _)
\* From window w down: the topmost drawable child that holds the point, and
\* so on below it; w itself when no child does.
Deepest(s, w, x, y) ==
    IF Candidates(s, s.win[w].children, x, y) = {} THEN w
    ELSE Deepest(s, Topmost(s, Candidates(s, s.win[w].children, x, y)), x, y)

\* The window a tap at (x, y) belongs to, 0 when it is unclaimed.
TapTarget(s, x, y) ==
    IF Candidates(s, s.reg, x, y) = {} THEN 0
    ELSE Deepest(s, Topmost(s, Candidates(s, s.reg, x, y)), x, y)

\* C9: a hitTest that is not rate-limited, with the screensaver inactive,
\* appends the INPUT message to the queue of the tap's target and leaves
\* every other queue as it was; nothing is queued exactly when no drawable
\* top-level window holds the point.
C9_TapGoesToTopmost ==
    [][(lastOp'.op = "hitTest" /\ lastOp'.ret) =>
          \A w \in Slots :
              win'[w].queue =
                  IF w = TapTarget(World, lastOp'.x, lastOp'.y)
                  THEN Append(win[w].queue, TapMessage(lastOp'.x, lastOp'.y))
                  ELSE win[w].queue
      ]_vars

\* A tap landed on a point that two drawable top-level windows hold, the
\* upper one with a drawable child that holds it too and got the message.
C9_Witness ==
    /\ lastOp.op = "hitTest"
    /\ lastOp.ret
    /\ \E a, b, c \in Slots :
          /\ a # b
          /\ win[a].used /\ win[b].used /\ win[c].used
          /\ win[a].parent = 0 /\ win[b].parent = 0 /\ win[c].parent = b
          /\ win[a].zOrder < win[b].zOrder
          /\ \A v \in {a, b, c} :
                isDrawable(World, v) /\ pointWithin(win[v].rect, lastOp.x, lastOp.y)
          /\ win[a].queue = <<>>
          /\ win[b].queue = <<>>
          /\ win[c].queue = <<TapMessage(lastOp.x, lastOp.y)>>

\* Rectangle p holds every point of rectangle q.
Covers(p, q) ==
    p.left <= q.left /\ p.top <= q.top /\ p.right >= q.right /\ p.bottom >= q.bottom

\* Top-level window w is drawable with a non-empty dirty rect, and a drawable
\* top-level window above it covers its rect.
CoveredAndDirty(s, w) ==
    /\ \E i \in DOMAIN s.reg : s.reg[i] = w
    /\ isDrawable(s, w)
    /\ ~empty(s.win[w].dirtyRect)
    /\ \E i \in DOMAIN s.reg :
          /\ s.win[s.reg[i]].zOrder > s.win[w].zOrder
          /\ isDrawable(s, s.reg[i])
          /\ Covers(s.win[s.reg[i]].rect, s.win[w].rect)

\* C10: an executed render pass with the screensaver inactive copies nothing
\* for a covered top-level window that is dirty, does not count it as an
\* update, and leaves its dirty rect empty.
C10_CoveredWindowNotPainted ==
    [][(lastOp'.op = "render" /\ lastOp'.ret /\ ~bitsHigh(wmState', WMS_SSAVER_ACTIVE)) =>
          \A w \in Slots :
              CoveredAndDirty(World, w) =>
                  /\ \A i \in DOMAIN lastOp'.copied : lastOp'.copied[i].w # w
                  /\ w \notin lastOp'.counted
                  /\ empty(win'[w].dirtyRect)
      ]_vars

\* ---- helpers of the render claims
\* The pixels of the display, each named by its low corner.
DisplayXs == 0..(DisplayWidth - 1)
DisplayYs == 0..(DisplayHeight - 1)

\* The drawable top-level windows above top-level window w in z-order.
DrawableAbove(s, w) ==
    {v \in {s.reg[i] : i \in DOMAIN s.reg} :
        s.win[v].zOrder > s.win[w].zOrder /\ isDrawable(s, v)}

\* The pixel (x, y) of top-level window w is dirty and no drawable top-level
\* window above w holds it.
DirtyAndVisible(s, w, x, y) ==
    /\ HasCell(s.win[w].dirtyRect, x, y)
    /\ \A v \in DrawableAbove(s, w) : ~HasCell(s.win[v].rect, x, y)

\* The overlap scenario: w is dirty all over and the one drawable window
\* above it holds w's bottom right corner but neither its left nor its top
\* edge.
OverlapScenario(s, w) ==
    /\ s.win[w].dirtyRect = s.win[w].rect
    /\ Cardinality(DrawableAbove(s, w)) = 1
    /\ \A v \in DrawableAbove(s, w) :
          /\ s.win[v].rect.left > s.win[w].rect.left
          /\ s.win[v].rect.top > s.win[w].rect.top
          /\ s.win[v].rect.left < s.win[w].rect.right
          /\ s.win[v].rect.top < s.win[w].rect.bottom
          /\ s.win[v].rect.right >= s.win[w].rect.right
          /\ s.win[v].rect.bottom >= s.win[w].rect.bottom

\* C11: in an executed render pass every region copied for a top-level window
\* lies inside the window's dirty rect and outside every drawable top-level
\* window above it, and no pixel is copied twice for the same window; in the
\* overlap scenario the copies are at most two rectangles that hold exactly
\* the pixels of the lower window outside the upper one.
C11_CopiedOnceInsideDirtyVisible ==
    [][(lastOp'.op = "render" /\ lastOp'.ret) =>
          /\ \A i \in DOMAIN lastOp'.copied :
                \A x \in DisplayXs, y \in DisplayYs :
                    HasCell(lastOp'.copied[i].rect, x, y) =>
                        /\ DirtyAndVisible(World, lastOp'.copied[i].w, x, y)
                        /\ \A j \in DOMAIN lastOp'.copied :
                              (j # i /\ lastOp'.copied[j].w = lastOp'.copied[i].w)
                                  => ~HasCell(lastOp'.copied[j].rect, x, y)
          /\ \A w \in Slots :
                (win[w].used /\ win[w].parent = 0 /\ isDrawable(World, w)
                 /\ OverlapScenario(World, w)) =>
                    /\ Cardinality({i \in DOMAIN lastOp'.copied :
                                        lastOp'.copied[i].w = w}) <= 2
                    /\ \A x \in DisplayXs, y \in DisplayYs :
                          DirtyAndVisible(World, w, x, y) <=>
                              \E i \in DOMAIN lastOp'.copied :
                                  /\ lastOp'.copied[i].w = w
                                  /\ HasCell(lastOp'.copied[i].rect, x, y)
      ]_vars

\* C12: in an executed render pass with the screensaver inactive, every pixel
\* of a drawable top-level window's dirty rect that no drawable top-level
\* window above it holds is copied to the display for that window.
C12_DirtyVisibleIsCopied ==
    [][(lastOp'.op = "render" /\ lastOp'.ret /\ ~bitsHigh(wmState', WMS_SSAVER_ACTIVE)) =>
          \A w \in Slots :
              (win[w].used /\ win[w].parent = 0 /\ isDrawable(World, w)) =>
                  \A x \in DisplayXs, y \in DisplayYs :
                      DirtyAndVisible(World, w, x, y) =>
                          \E i \in DOMAIN lastOp'.copied :
                              /\ lastOp'.copied[i].w = w
                              /\ HasCell(lastOp'.copied[i].rect, x, y)
      ]_vars

RECURSIVE InSubtree(_, _, _)
\* Window d is window w or is reached from w through the child collections.
InSubtree(s, d, w) ==
    d = w \/ \E i \in DOMAIN s.win[w].children : InSubtree(s, d, s.win[w].children[i])

\* C13: after an executed render pass with the screensaver inactive, the
\* queue of every top-level window and of every window below it is empty.
C13_RenderDrainsSubtree ==
    [][(lastOp'.op = "render" /\ lastOp'.ret /\ ~bitsHigh(wmState', WMS_SSAVER_ACTIVE)) =>
          \A i \in DOMAIN registry :
              \A d \in Slots :
                  InSubtree(World, d, registry[i]) => win'[d].queue = <<>>
      ]_vars

\* ---- helpers of the creation claims
\* The styles the factory accepts for this parent: a child style with a
\* parent, or a top-level style without one.
ValidStyle(parent, style) ==
    \/ bitsHigh(style, STY_CHILD) /\ ~bitsHigh(style, STY_TOPLEVEL) /\ parent # 0
    \/ bitsHigh(style, STY_TOPLEVEL) /\ ~bitsHigh(style, STY_CHILD) /\ parent = 0

\* A window with this id is a member of the target container.
SiblingHasId(s, parent, id) ==
    \E i \in DOMAIN getChildren(s, parent) : s.win[getChildren(s, parent)[i]].id = id

\* The pre-creation hook of call op returns false: it is a hook that refuses,
\* or createPrompt's hook cannot add a button because its id is reserved or
\* was given to an earlier button.
HookRefuses(op) ==
    \/ ~op.hookOk
    \/ \E i \in DOMAIN op.buttons :
          \/ op.buttons[i] = WID_INVALID
          \/ \E j \in 1..(i - 1) : op.buttons[j] = op.buttons[i]

\* CREATE is not handled in call op: a prompt cannot create its label because
\* a button took the label's id.
CreateRefused(op) ==
    op.op = "createPrompt" /\ \E i \in DOMAIN op.buttons : op.buttons[i] = LabelID

\* Call op must return null.
MustFail(s, op) ==
    \/ op.id = WID_INVALID
    \/ HookRefuses(op)
    \/ CreateRefused(op)
    \/ SiblingHasId(s, op.parent, op.id)

\* C14: createWindow (and createPrompt through it) returns null when the id
\* is 0, when the hook returns false, when CREATE is not handled and when a
\* sibling has the id; in every other case with valid styles it returns a
\* window that is a member of the target container.
C14_CreateWindowNullCases ==
    [][(lastOp'.op \in {"createWindow", "createPrompt"} /\ ~lastOp'.halted) =>
          /\ MustFail(World, lastOp') => (~lastOp'.ret /\ lastOp'.w = 0)
          /\ (~MustFail(World, lastOp') /\ ValidStyle(lastOp'.parent, lastOp'.style)) =>
                /\ lastOp'.ret
                /\ win'[lastOp'.w].used
                /\ win'[lastOp'.w].id = lastOp'.id
                /\ \E i \in DOMAIN getChildren(WorldAfter, lastOp'.parent) :
                      getChildren(WorldAfter, lastOp'.parent)[i] = lastOp'.w
      ]_vars

\* A prompt was refused because its button took the label's id, although its
\* own id was free; the prompt had been given the button by then.
C14_Witness ==
    /\ lastOp.op = "createPrompt"
    /\ ~lastOp.ret
    /\ lastOp.id # WID_INVALID
    /\ lastOp.buttons = <<LabelID>>
    /\ ~SiblingHasId(World, 0, lastOp.id)
    /\ \E w \in Slots :
          /\ win[w].kind = "Prompt"
          /\ ~isAlive(World, w)
          /\ win[w].children # <<>>

\* C15: createWindow with a child style and no parent, or with a top-level
\* style and a parent, returns null, leaves the root container as it was and
\* does not end the program.
C15_StyleMismatchFailsCleanly ==
    [][(lastOp'.op = "createWindow"
        /\ \/ bitsHigh(lastOp'.style, STY_CHILD) /\ lastOp'.parent = 0
           \/ bitsHigh(lastOp'.style, STY_TOPLEVEL) /\ lastOp'.parent # 0) =>
          /\ ~lastOp'.halted
          /\ ~lastOp'.ret
          /\ registry' = registry
      ]_vars

\* C16: a createWindow or createPrompt call that returns null leaves the root
\* container and every window that existed before the call as they were:
\* children, z-order, state flags and dirty rect.
C16_FailedCreateChangesNothing ==
    [][(lastOp'.op \in {"createWindow", "createPrompt"} /\ ~lastOp'.ret
        /\ ~lastOp'.halted) =>
          /\ registry' = registry
          /\ \A w \in Slots : win[w].used => win'[w] = win[w]
      ]_vars

\* C17 (exostra.h): after destroy() on window w, w and every window that was
\* in its subtree when the call was made is not alive and has received
\* DESTROY, w is not visible and w has no children.
C17_DestroyClearsSubtree ==
    [][lastOp'.op = "destroy" =>
          /\ \A d \in Slots :
                 InSubtree(World, d, lastOp'.w) =>
                     /\ ~bitsHigh(win'[d].state, STA_ALIVE)
                     /\ win'[d].destroyed
          /\ ~isVisible(WorldAfter, lastOp'.w)
          /\ win'[lastOp'.w].children = <<>>
      ]_vars

\* A destroy call on a window with a child and a grandchild has returned.
C17_Witness ==
    /\ lastOp.op = "destroy"
    /\ \E c, g \in Slots :
           /\ win[c].used /\ win[c].parent = lastOp.w
           /\ win[g].used /\ win[g].parent = c
           /\ win[lastOp.w].destroyed /\ win[c].destroyed /\ win[g].destroyed

\* C17 (twm.h): the same statement about the older header's destroy(), whose
\* isVisible() is the STY_VISIBLE bit.
C17_TwmDestroyClearsSubtree ==
    [][lastOp'.op = "destroy" =>
          /\ \A d \in Slots :
                 InSubtree(World, d, lastOp'.w) =>
                     /\ ~bitsHigh(win'[d].state, STA_ALIVE)
                     /\ win'[d].destroyed
          /\ ~twm_isVisible(WorldAfter, lastOp'.w)
          /\ win'[lastOp'.w].children = <<>>
      ]_vars

\* The container a window belongs to: its parent's children, or the registry
\* (container 0) for a window without parent.
ContainerOf(s, w) == s.win[w].parent

\* C18: after destroy() on window w, w is not a member of its container, the
\* windows that remain there are numbered 0..N-1 in order, and a later
\* createWindow in that container with an id that only destroyed windows
\* carry returns a window.
C18_DestroyDetaches ==
    [][
        /\ lastOp'.op = "destroy" =>
              LET kids == getChildren(WorldAfter, ContainerOf(World, lastOp'.w))
              IN  \A i \in DOMAIN kids :
                      /\ kids[i] # lastOp'.w
                      /\ win'[kids[i]].zOrder = i - 1
        /\ (/\ lastOp'.op = "createWindow"
            /\ lastOp'.id # WID_INVALID
            /\ lastOp'.hookOk
            /\ ValidStyle(lastOp'.parent, lastOp'.style)
            /\ \A j \in DOMAIN getChildren(World, lastOp'.parent) :
                   LET d == getChildren(World, lastOp'.parent)[j]
                   IN  win[d].id = lastOp'.id => win[d].destroyed)
           => lastOp'.ret
      ]_vars

\* Window w is reached from the root container through child collections.
Reachable(s, w) == \E i \in DOMAIN s.reg : InSubtree(s, w, s.reg[i])

\* C19: in every state in which a createWindow, createPrompt, destroy or
\* tearDown call has just returned, a window is alive exactly if it is
\* reachable from the root container.
C19_AliveIffReachable ==
    (lastOp.op \in {"createWindow", "createPrompt", "destroy", "tearDown"}
     /\ ~lastOp.halted) =>
        \A w \in Slots :
            win[w].used => (isAlive(World, w) <=> Reachable(World, w))

\* C20: STA_ALIVE of a window becomes set only in a createWindow call that
\* returns that window, and a window that has received DESTROY is not alive
\* and not drawable after any later step: show, hide, setDirty, hitTest,
\* render (with its processQueue) or any other call.
C20_DestroyedIsTerminal ==
    [][
        /\ \A w \in Slots :
               (bitsHigh(win'[w].state, STA_ALIVE) /\ ~bitsHigh(win[w].state, STA_ALIVE)) =>
                   /\ lastOp'.op = "createWindow"
                   /\ lastOp'.ret
                   /\ lastOp'.w = w
                   /\ ~win[w].used
        /\ \A w \in Slots :
               (win[w].used /\ win[w].destroyed) =>
                   /\ win'[w].destroyed
                   /\ ~bitsHigh(win'[w].state, STA_ALIVE)
                   /\ ~isDrawable(WorldAfter, w)
      ]_vars

\* show() has been called on a destroyed window: it carries STY_VISIBLE again
\* and is neither alive nor drawable.
C20_Witness ==
    /\ lastOp.op = "show"
    /\ win[lastOp.w].destroyed
    /\ bitsHigh(win[lastOp.w].style, STY_VISIBLE)
    /\ ~isAlive(World, lastOp.w)
    /\ ~isDrawable(World, lastOp.w)

\* ---- helpers of the manager claims
\* The closed rectangle two closed rectangles have in common.
CommonRect(p, q) ==
    [left |-> max(p.left, q.left), top |-> max(p.top, q.top),
     right |-> min(p.right, q.right), bottom |-> min(p.bottom, q.bottom)]

\* C21: after setDirtyRect(R), a drawable top-level window whose rect has
\* pixels in common with R has a dirty rect that contains the common
\* rectangle; one that only touches R has that or its old dirty rect; a
\* top-level window that is not drawable or has no point in common with R
\* keeps its dirty rect; and no dirty rect reaches beyond its window's rect.
C21_SetDirtyRectMarksIntersection ==
    [][lastOp'.op = "setDirtyRect" =>
          \A i \in DOMAIN registry :
              LET w == registry[i]
                  R == lastOp'.rect
                  common == CommonRect(win[w].rect, R)
              IN  /\ (isDrawable(World, w) /\ ShareCell(win[w].rect, R)) =>
                         Covers(win'[w].dirtyRect, common)
                  /\ (isDrawable(World, w) /\ SharePoint(win[w].rect, R)
                      /\ ~ShareCell(win[w].rect, R)) =>
                         \/ Covers(win'[w].dirtyRect, common)
                         \/ win'[w].dirtyRect = win[w].dirtyRect
                  /\ (~isDrawable(World, w) \/ ~SharePoint(win[w].rect, R)) =>
                         win'[w].dirtyRect = win[w].dirtyRect
                  /\ (empty(win'[w].dirtyRect) \/ Covers(win[w].rect, win'[w].dirtyRect))
      ]_vars

\* A drawable top-level window holds the point of the last call.
TapWouldLand ==
    \E i \in DOMAIN registry :
        /\ isDrawable(World, registry[i])
        /\ pointWithin(win[registry[i]].rect, lastOp.x, lastOp.y)

\* C22: a hitTest call made while WMS_SSAVER_ACTIVE is set changes no window's
\* queue.
C22_NoTapWhileSaverActive ==
    [][(lastOp'.op = "hitTest" /\ bitsHigh(wmState, WMS_SSAVER_ACTIVE)) =>
          \A w \in Slots : win'[w].queue = win[w].queue
      ]_vars

\* A tap that was not rate-limited has arrived over a drawable window while
\* the screensaver was active, and has reset the idle timer.
C22_Witness ==
    /\ lastOp.op = "hitTest"
    /\ bitsHigh(wmState, WMS_SSAVER_ACTIVE)
    /\ (now - lastHitTestTime) >= minHitTestIntervalMsec
    /\ ssaverEpoch = now
    /\ now > 0
    /\ TapWouldLand

\* C23: after every hitTest call made while WMS_SSAVER_ENABLED is set, the
\* screensaver epoch is the current time.
C23_AnyTapResetsIdleTimer ==
    [][(lastOp'.op = "hitTest" /\ bitsHigh(wmState, WMS_SSAVER_ENABLED)) =>
          ssaverEpoch' = now
      ]_vars

\* C24: the last-hit-test timestamp changes only in a hitTest call whose
\* window walk ran, which sets it to the current time; a hitTest call made
\* less than minHitTestIntervalMsec after that timestamp changes no window,
\* no manager flag and no timestamp.
C24_RateLimitedTapHasNoEffect ==
    [][
        /\ (lastHitTestTime' # lastHitTestTime) => (lastOp'.op = "hitTest" /\ lastOp'.ret)
        /\ (lastOp'.op = "hitTest" /\ lastOp'.ret) => lastHitTestTime' = now
        /\ (lastOp'.op = "hitTest"
            /\ (now - lastHitTestTime) < minHitTestIntervalMsec) =>
               /\ ~lastOp'.ret
               /\ UNCHANGED <<treeVars, wmVars>>
      ]_vars

\* A tap over a drawable window was skipped because a hit test had run to
\* completion less than the interval before it.
C24_Witness ==
    /\ lastOp.op = "hitTest"
    /\ ~lastOp.ret
    /\ lastHitTestTime > 0
    /\ (now - lastHitTestTime) < minHitTestIntervalMsec
    /\ ~bitsHigh(wmState, WMS_SSAVER_ACTIVE)
    /\ TapWouldLand

\* C25: after a render call that executed the pass, no render call made less
\* than minRenderIntervalMsec later executes the pass: the test at the head of
\* render turns every such call away.
C25_RenderAtMostOncePerInterval ==
    (lastOp.op = "render" /\ lastOp.ret) =>
        \A t \in now..MaxTime :
            (t - now) < minRenderIntervalMsec =>
                (t - lastRenderTime) < minRenderIntervalMsec

LocalRect(w) ==
    [left |-> 0, top |-> 0,
     right |-> width(win[w].rect), bottom |-> height(win[w].rect)]

ConvPoint == [x |-> lastOp.x, y |-> lastOp.y]

ConvOutPoint == [x |-> lastOp.out.left, y |-> lastOp.out.top]

CornerOutside(r, rect) ==
    ~pointWithin(r, rect.left, rect.top) \/ ~pointWithin(r, rect.right, rect.bottom)

\* C27: displayToWindow and windowToDisplay fail closed and invert each other.
\* A point outside the window rect (for windowToDisplay: outside the local
\* rect (0,0,width,height)), or a rect with a corner outside, makes the call
\* return false and leaves the argument as it was; a point inside is
\* converted, and converting the result back with the other function gives
\* the point again.
C27_ConversionsFailClosedAndInvert ==
    /\ lastOp.op = "displayToWindowPoint" =>
           IF pointWithin(win[lastOp.w].rect, lastOp.x, lastOp.y)
           THEN /\ lastOp.ret
                /\ windowToDisplayPoint(World, lastOp.w, ConvOutPoint)
                       = [ok |-> TRUE, pt |-> ConvPoint]
           ELSE ~lastOp.ret /\ ConvOutPoint = ConvPoint
    /\ lastOp.op = "windowToDisplayPoint" =>
           IF pointWithin(LocalRect(lastOp.w), lastOp.x, lastOp.y)
           THEN /\ lastOp.ret
                /\ displayToWindowPoint(World, lastOp.w, ConvOutPoint)
                       = [ok |-> TRUE, pt |-> ConvPoint]
           ELSE ~lastOp.ret /\ ConvOutPoint = ConvPoint
    /\ (lastOp.op = "displayToWindowRect"
        /\ CornerOutside(win[lastOp.w].rect, lastOp.rect)) =>
           ~lastOp.ret /\ lastOp.out = lastOp.rect
    /\ (lastOp.op = "windowToDisplayRect"
        /\ CornerOutside(LocalRect(lastOp.w), lastOp.rect)) =>
           ~lastOp.ret /\ lastOp.out = lastOp.rect

\* The taps waiting in window b's queue.
TapsPending(b) ==
    Cardinality({i \in DOMAIN win[b].queue : win[b].queue[i].msg = "MSG_INPUT"})

\* The positions of a log at which msg was handled by window w.
Handled(log, w, msg) == {i \in DOMAIN log : log[i].w = w /\ log[i].msg = msg}

\* The buttons that are children of a prompt.
PromptButtons ==
    {b \in Slots : /\ win[b].used
                   /\ win[b].kind = "Button"
                   /\ win[b].parent # 0
                   /\ win[win[b].parent].kind = "Prompt"}

StoppedBeforeCreate ==
    \/ lastOp'.id = WID_INVALID
    \/ bitsHigh(lastOp'.style, STY_CHILD) /\ lastOp'.parent = 0
    \/ bitsHigh(lastOp'.style, STY_TOPLEVEL) /\ lastOp'.parent # 0
    \/ HookRefuses(lastOp')

\* Window n is in the collection of its container after the step.
MemberAfter(n) ==
    /\ win'[n].used
    /\ \E i \in DOMAIN getChildren(WorldAfter, win'[n].parent) :
           getChildren(WorldAfter, win'[n].parent)[i] = n

\* C29: createWindow validates id and style, runs the pre-creation hook,
\* delivers CREATE, inserts the window into its container, delivers RESIZE
\* (only with STY_AUTOSIZE) and then redraws, in this order. CREATE is not
\* delivered when validation or the hook fails, the window is not inserted when
\* CREATE fails, and the new window handles no DRAW before it is a member of
\* its container. n is the Window object the call constructs.
C29_CreateWindowStepOrder ==
    [][(lastOp'.op \in {"createWindow", "createPrompt"} /\ ~lastOp'.halted) =>
          LET n == freeSlot(World)
              log == lastOp'.log
          IN  /\ StoppedBeforeCreate => Handled(log, n, "MSG_CREATE") = {}
              /\ \A i \in Handled(log, n, "MSG_CREATE") : ~log[i].member
              /\ MemberAfter(n) =>
                     /\ Handled(log, n, "MSG_CREATE") # {}
                     /\ isAlive(WorldAfter, n)
              /\ \A i \in Handled(log, n, "MSG_RESIZE") :
                     /\ bitsHigh(lastOp'.style, STY_AUTOSIZE)
                     /\ log[i].member
                     /\ \A j \in Handled(log, n, "MSG_CREATE") : j < i
              /\ \A i \in Handled(log, n, "MSG_DRAW") : log[i].member
      ]_vars

\* The ids of the windows in container c (0 is the registry) are pairwise
\* distinct and none is WID_INVALID.
DistinctIds(s, c) ==
    \A i \in DOMAIN getChildren(s, c) :
        /\ s.win[getChildren(s, c)[i]].id # WID_INVALID
        /\ \A j \in DOMAIN getChildren(s, c) :
               s.win[getChildren(s, c)[i]].id = s.win[getChildren(s, c)[j]].id => i = j

\* C30: in every state the windows of one container (the registry or the
\* children of one window) have pairwise distinct ids, none of them 0; and a
\* createWindow or addChild call whose window has an id that the container
\* already holds returns null or false and leaves the container's sequence
\* and every window's z-order as they were.
C30_IdsUniquePerContainer ==
    /\ [](\A c \in {0} \cup {w \in Slots : win[w].used} : DistinctIds(World, c))
    /\ [][(/\ lastOp'.op \in {"createWindow", "addChild"}
           /\ getChildByID(World, IF lastOp'.op = "addChild"
                                  THEN win[lastOp'.w].parent ELSE lastOp'.parent,
                           IF lastOp'.op = "addChild"
                           THEN win[lastOp'.w].id ELSE lastOp'.id) # 0) =>
              /\ ~lastOp'.ret
              /\ registry' = registry
              /\ \A w \in Slots :
                     win[w].used => /\ win'[w].children = win[w].children
                                    /\ win'[w].zOrder = win[w].zOrder]_vars

\* A window was asked for with an id that its container holds, or a child
\* was added to a parent that holds a child with its id, and the call failed.
C30_Witness ==
    /\ lastOp.op \in {"createWindow", "addChild"}
    /\ ~lastOp.ret
    /\ getChildByID(World, IF lastOp.op = "addChild"
                           THEN win[lastOp.w].parent ELSE lastOp.parent,
                    IF lastOp.op = "addChild"
                    THEN win[lastOp.w].id ELSE lastOp.id) # 0
    /\ \E c \in Slots : win[c].used /\ Len(win[c].children) >= 2

\* Sequence seq without its element at position i.
Without(seq, i) == [j \in 1..(Len(seq) - 1) |-> IF j < i THEN seq[j] ELSE seq[j + 1]]

\* Window w is an element of the registry.
InRegistry(w) == \E i \in DOMAIN registry : registry[i] = w

\* C31: setForegroundWindow(w), called directly or by show() on a window with
\* the STY_TOPLEVEL style, moves w to the end of the registry when w has no
\* parent, has the full STY_TOPLEVEL style and is in the registry: the other
\* windows keep their relative order, and a direct call returns true.
\* Otherwise the registry and every z-order stay as they were, and a direct
\* call returns false.
C31_SetForegroundOnlyForRegisteredTopLevel ==
    [][(\/ lastOp'.op = "setForegroundWindow"
        \/ lastOp'.op = "show" /\ bitsHigh(win[lastOp'.w].style, STY_TOPLEVEL)) =>
          IF /\ win[lastOp'.w].parent = 0
             /\ bitsHigh(win[lastOp'.w].style, STY_TOPLEVEL)
             /\ InRegistry(lastOp'.w)
          THEN /\ \E i \in DOMAIN registry :
                      /\ registry[i] = lastOp'.w
                      /\ registry' = Append(Without(registry, i), lastOp'.w)
               /\ lastOp'.op = "setForegroundWindow" => lastOp'.ret
          ELSE /\ registry' = registry
               /\ \A w \in Slots : win'[w].zOrder = win[w].zOrder
               /\ lastOp'.op = "setForegroundWindow" => ~lastOp'.ret
      ]_vars

\* The messages a call of processQueue on w is to dispatch, in order, given
\* the windows ws before the call: the oldest message of w if it has one,
\* then the same for each child in the order of the children.
RECURSIVE ExpectedDispatch(_, _)
RECURSIVE ExpectedDispatchChildren(_, _, _)
ExpectedDispatchChildren(ws, kids, i) ==
    IF i > Len(kids) THEN <<>>
    ELSE ExpectedDispatch(ws, kids[i]) \o ExpectedDispatchChildren(ws, kids, i + 1)

ExpectedDispatch(ws, w) ==
    (IF ws[w].queue # <<>>
     THEN <<[w |-> w, msg |-> Head(ws[w].queue).msg,
             p1 |-> Head(ws[w].queue).p1, p2 |-> Head(ws[w].queue).p2]>>
     ELSE <<>>) \o ExpectedDispatchChildren(ws, ws[w].children, 1)

\* The queued messages (input and events) that a log shows as handled.
Dispatched(log) ==
    LET IsQueued(e) == e.msg \in {"MSG_INPUT", "MSG_EVENT"}
        sel == SelectSeq(log, IsQueued)
    IN  [i \in DOMAIN sel |-> [w |-> sel[i].w, msg |-> sel[i].msg,
                               p1 |-> sel[i].p1, p2 |-> sel[i].p2]]

IsPrefix(a, b) == Len(a) <= Len(b) /\ \A i \in DOMAIN a : a[i] = b[i]

\* C32: a call of processQueue on w dispatches the oldest message of w, if
\* there is one, then makes one call on each child in the order of the
\* children: the messages handled during the call are the oldest message of
\* each window of the subtree that has one, in depth-first order, every
\* queue loses at most its oldest message, and what was behind it stays in
\* order at the front.
C32_OneMessagePerWindowPerCall ==
    [][lastOp'.op = "processQueue" =>
          /\ Dispatched(lastOp'.log) = ExpectedDispatch(win, lastOp'.w)
          /\ \A x \in Slots :
                 IF win[x].queue # <<>>
                    /\ \E i \in DOMAIN Dispatched(lastOp'.log) :
                           Dispatched(lastOp'.log)[i].w = x
                 THEN IsPrefix(Tail(win[x].queue), win'[x].queue)
                 ELSE IsPrefix(win[x].queue, win'[x].queue)
      ]_vars

\* A call on a window that handled nothing itself has dispatched a message
\* at each of two of its children.
C32_Witness ==
    /\ lastOp.op = "processQueue"
    /\ \A i \in DOMAIN lastOp.log : lastOp.log[i].w # lastOp.w
    /\ \E i, j \in DOMAIN Dispatched(lastOp.log) :
           /\ i < j
           /\ Dispatched(lastOp.log)[i].w # Dispatched(lastOp.log)[j].w
           /\ win[Dispatched(lastOp.log)[i].w].parent = lastOp.w
           /\ win[Dispatched(lastOp.log)[j].w].parent = lastOp.w

\* C33: setDirtyRect(R) with a non-empty R takes no point out of any
\* window's dirty rect: afterwards each window's dirty rect contains the one
\* it had before and, for a drawable top-level window that has pixels in
\* common with R, the common rectangle as well.
C33_MarkingNeverShrinksDirtyRect ==
    [][(lastOp'.op = "setDirtyRect" /\ ~empty(lastOp'.rect)) =>
          \A w \in Slots :
              /\ (win[w].used /\ ~empty(win[w].dirtyRect)) =>
                     Covers(win'[w].dirtyRect, win[w].dirtyRect)
              /\ (win[w].used /\ win[w].parent = 0 /\ InRegistry(w)
                  /\ isDrawable(World, w) /\ ShareCell(win[w].rect, lastOp'.rect)) =>
                     Covers(win'[w].dirtyRect, CommonRect(win[w].rect, lastOp'.rect))
      ]_vars

\* The screensaver is active in the manager state st.
SaverActive(st) == bitsHigh(st, WMS_SSAVER_ACTIVE)

\* The cells of the display.
DisplayCells == (0..(DisplayWidth - 1)) \X (0..(DisplayHeight - 1))

\* C34: a step that takes the screensaver from active to inactive
\* invalidates the display. When render does it, every display cell under a
\* drawable top-level window is copied to the display in that pass or is in
\* that window's dirty rect afterwards; when disableScreensaver does it,
\* every drawable top-level window has a dirty rect covering what it shares
\* with the display. And the screensaver is painted once per activation: it
\* is painted in the pass that activates it and in no other.
C34_LeavingSaverInvalidatesDisplay ==
    /\ [](SaverActive(wmState) => bitsHigh(wmState, WMS_SSAVER_DRAWN))
    /\ [][/\ (~bitsHigh(wmState, WMS_SSAVER_DRAWN) /\ bitsHigh(wmState', WMS_SSAVER_DRAWN))
                 => (lastOp'.op = "render" /\ ~SaverActive(wmState))
          /\ (SaverActive(wmState) /\ ~SaverActive(wmState') /\ lastOp'.op = "render") =>
                 \A c \in DisplayCells : \A i \in DOMAIN registry :
                     (isDrawable(World, registry[i])
                      /\ HasCell(win[registry[i]].rect, c[1], c[2])) =>
                         \/ \E j \in DOMAIN lastOp'.copied :
                                HasCell(lastOp'.copied[j].rect, c[1], c[2])
                         \/ HasCell(win'[registry[i]].dirtyRect, c[1], c[2])
          /\ (SaverActive(wmState) /\ ~SaverActive(wmState') /\ lastOp'.op # "render") =>
                 \A i \in DOMAIN registry :
                     (isDrawable(World, registry[i])
                      /\ ShareCell(win[registry[i]].rect, getDisplayRect)) =>
                         Covers(win'[registry[i]].dirtyRect,
                                CommonRect(win[registry[i]].rect, getDisplayRect))
         ]_vars

\* The positions of a log at which a window handled MSG_DRAW.
Draws(log) == {k \in DOMAIN log : log[k].msg = "MSG_DRAW"}

\* C35: in a call of setDirty(true, redrawWindow) or redraw(force), a window
\* handles MSG_DRAW only if it is drawable and either the draw is forced or
\* its STA_DIRTY flag is set (it was set before the call, the call set it,
\* or the window's parent set it after drawing itself); MSG_POSTDRAW is
\* handled by the same window right after; and the window's STA_DIRTY flag
\* is clear when the call returns. setDirty(true) on a drawable window draws
\* it and leaves its flag clear; setDirty(true, false) raises the flag,
\* changes nothing else and no handler runs.
C35_DrawOnlyWhenDrawableAndDirty ==
    [][(lastOp'.op = "setDirty" \/ lastOp'.op = "redraw") =>
          /\ \A k \in Draws(lastOp'.log) :
                 LET x == lastOp'.log[k].w
                 IN  /\ isDrawable(World, x)
                     /\ \/ lastOp'.log[k].p1 # 0
                        \/ isDirty(World, x)
                        \/ lastOp'.op = "setDirty" /\ x = lastOp'.w
                        \/ \E j \in Draws(lastOp'.log) :
                               j < k /\ lastOp'.log[j].w = win[x].parent
                     /\ k < Len(lastOp'.log)
                     /\ lastOp'.log[k + 1].msg = "MSG_POSTDRAW"
                     /\ lastOp'.log[k + 1].w = x
                     /\ ~bitsHigh(win'[x].state, STA_DIRTY)
          /\ (lastOp'.op = "setDirty" /\ lastOp'.x = 1 /\ isDrawable(World, lastOp'.w)) =>
                 /\ \E k \in Draws(lastOp'.log) : lastOp'.log[k].w = lastOp'.w
                 /\ ~bitsHigh(win'[lastOp'.w].state, STA_DIRTY)
          /\ (lastOp'.op = "setDirty" /\ lastOp'.x = 0) =>
                 /\ lastOp'.log = <<>>
                 /\ win' = [win EXCEPT ![lastOp'.w].state = @ \cup STA_DIRTY]
      ]_vars

\* The top-level window at the head of the parent chain of window x.
RECURSIVE TopLevelOf(_, _)
TopLevelOf(ws, x) == IF ws[x].parent = 0 THEN x ELSE TopLevelOf(ws, ws[x].parent)

\* C36: when a window below a top-level window handles MSG_DRAW in a call of
\* setDirty(true) or createWindow, the dirty rect of the top-level window at
\* the head of its parent chain contains the window's rect when the call
\* returns.
C36_DrawReachesTopLevelDirtyRect ==
    [][(lastOp'.op = "setDirty" \/ lastOp'.op = "createWindow") =>
          \A k \in Draws(lastOp'.log) :
              LET x == lastOp'.log[k].w
              IN  win'[x].parent # 0 =>
                      Covers(win'[TopLevelOf(win', x)].dirtyRect, win'[x].rect)
      ]_vars

\* The queued messages that a log shows window w handling, in order.
DispatchedAt(log, w) ==
    LET AtW(e) == e.w = w /\ e.msg \in {"MSG_INPUT", "MSG_EVENT"}
        sel == SelectSeq(log, AtW)
    IN  [i \in DOMAIN sel |-> [msg |-> sel[i].msg, p1 |-> sel[i].p1, p2 |-> sel[i].p2]]

\* The events that the buttons of window w queued on w while handling the
\* taps a log shows, in order.
Arrivals(ws, log, w) ==
    LET FromButton(e) == /\ e.msg = "MSG_INPUT"
                         /\ ws[e.w].kind = "Button"
                         /\ ws[e.w].parent = w
        sel == SelectSeq(log, FromButton)
    IN  [i \in DOMAIN sel |->
            [msg |-> "MSG_EVENT", p1 |-> EVT_CHILD_TAPPED, p2 |-> ws[sel[i].w].id]]

\* C37: with render passes executed again and again and the screensaver
\* off, a message waiting at a window of the tree leads to a pass in which
\* that window handles a message; in every pass each window handles the
\* front of its queue in order, each message once, and keeps the rest (what
\* it handled followed by what it still holds is what it held followed by
\* what its buttons queued on it); and each top-level window's loop ends
\* with that window's queue empty.
C37_QueuedMessagesEventuallyDispatched ==
    /\ [][(lastOp'.op = "render" /\ lastOp'.ret) =>
            /\ \A w \in Slots :
                   (win[w].used /\ Reachable(World, w)) =>
                       DispatchedAt(lastOp'.log, w) \o win'[w].queue
                           = win[w].queue \o Arrivals(win, lastOp'.log, w)
            /\ \A i \in DOMAIN registry : win'[registry[i]].queue = <<>>
         ]_vars
    /\ \A w \in Slots :
           (win[w].used /\ win[w].queue # <<>> /\ Reachable(World, w))
               ~> (lastOp.op = "render" /\ DispatchedAt(lastOp.log, w) # <<>>)

\* A pass has handled one message of a window below the top level, and
\* another message is still waiting there.
C37_Witness ==
    /\ lastOp.op = "render"
    /\ \E w \in Slots :
           /\ win[w].used
           /\ win[w].parent # 0
           /\ Len(DispatchedAt(lastOp.log, w)) = 1
           /\ win[w].queue # <<>>

\* The handlers run by the call that a step of the lifetime specification
\* makes, in order: the log of the modelled call on the state before the step.
LifeStepLog ==
    CASE lastOp'.op = "render" -> lastOp'.log
      [] lastOp'.op = "createWindow" -> lastOp'.log
      [] lastOp'.op = "destroy" -> destroy(World, lastOp'.w).log
      [] lastOp'.op = "tearDown" -> tearDown(World).log
      [] lastOp'.op = "show" -> show(World, lastOp'.w).log
      [] lastOp'.op = "hide" -> hide(World, lastOp'.w).log
      [] lastOp'.op = "setDirty" -> setDirty(World, lastOp'.w, TRUE, TRUE).log
      [] OTHER -> <<>>

\* C38: no call runs a handler of a window that was destroyed before the
\* call: a render pass does not dispatch the messages still waiting in its
\* queue, and destroy() and tearDown() do not hand it MSG_DESTROY again.
C38_NoHandlerAfterDestroy ==
    [][\A k \in DOMAIN LifeStepLog : ~win[LifeStepLog[k].w].destroyed]_vars

\* C39: every window's dirty rect is well-formed and, unless it is empty,
\* lies within the window's rect, and the dirty rect of a top-level window
\* converts to window coordinates.
C39_DirtyRectWithinWindowRect ==
    /\ \A w \in Slots :
           win[w].used =>
               /\ win[w].dirtyRect.right >= win[w].dirtyRect.left
               /\ win[w].dirtyRect.bottom >= win[w].dirtyRect.top
               /\ (empty(win[w].dirtyRect) \/ Covers(win[w].rect, win[w].dirtyRect))
    /\ \A i \in DOMAIN registry :
           empty(win[registry[i]].dirtyRect)
               \/ displayToWindow(World, registry[i], win[registry[i]].dirtyRect).ok

\* ------------------------------------------------- threads specification
\* A build with mutexes (EWM_NOMUTEXES not defined): one thread calls hitTest
\* while another calls render. Each call is executed in steps, a step ending
\* where the thread takes or gives back a mutex or has read a queue it is
\* about to write, so that the steps of the two calls interleave in every way
\* the mutexes allow.

\* A scope that takes no mutex: the build with EWM_NOMUTEXES.
ScopeLockNone(m, w, body) == body

\* "ScopeLock lock(mtx);" at the head of a scope with the given body: the
\* mutex is locked, the body executed, and the mutex unlocked at the end.
ScopeLock(m, w, body) ==
    <<Ins("lock", m, w, 0)>> \o body \o <<Ins("unlock", m, w, 0)>>

\* std::recursive_mutex::lock can return for thread t.
Free(T, t, l) == T.owner[l] \in {"none", t}

\* std::recursive_mutex::lock and unlock by thread t.
acquire(T, t, l) == [T EXCEPT !.owner[l] = t, !.count[l] = @ + 1]

release(T, t, l) ==
    [T EXCEPT !.count[l] = @ - 1,
              !.owner[l] = IF T.count[l] = 1 THEN "none" ELSE @]

\* Thread t has executed the instruction at the head of its list, which
\* leaves prog to execute before the rest.
step(T, t, prog) == [T EXCEPT !.todo[t] = prog \o Tail(@)]

\* Thread t iterates or changes the collection or queue that mutex m of
\* window w guards.
used(T, t, m, w) == [T EXCEPT !.bare = @ \/ T.owner[<<m, w>>] # t]

\* The rest of render's callback for window w once its queue is drained:
\* the window is painted to the display when it is drawable and dirty.
renderWindow(s, w) ==
    LET copy(c) == IF ~c.ok THEN s ELSE markRectDirty(s, w, ZeroRect)
        paint(dirtyRects) ==
            IF dirtyRects = <<>> THEN markRectDirty(s, w, ZeroRect)
            ELSE copy(copyLoop(s, w, dirtyRects, 1, <<>>))
    IN  IF ~isDrawable(s, w) THEN s
        ELSE IF empty(s.win[w].dirtyRect) THEN s
        ELSE paint(dirtyFragments(s.win[w].dirtyRect,
                 obscuringLoop(s, w, Len(s.reg), [set |-> FALSE, rect |-> ZeroRect]).rect))

\* What the queue of window v gained between the queue "before" and the
\* world a.
pushedTo(a, v, before) ==
    IF Len(a.win[v].queue) > Len(before)
    THEN SubSeq(a.win[v].queue, Len(before) + 1, Len(a.win[v].queue))
    ELSE <<>>

\* One instruction of the thread inside hitTest: the world and the threads
\* it leaves.
hitExec(s, T, ins) ==
    LET t == "hit"
        w == ins.w
        i == ins.i
        kids == getChildren(s, w)
        same(T1) == [s |-> s, T |-> T1]
        tap == [msg |-> "MSG_INPUT", p1 |-> makeMsgParam(0, INPUT_TAP),
                p2 |-> makeMsgParam(T.pt[1], T.pt[2])]
        pushed(a) ==
            [s |-> [a EXCEPT !.r = FALSE],
             T |-> step([used(T, t, "_queueMtx", w) EXCEPT
                            !.ret = a.r, !.local[t] = <<>>,
                            !.queued[w] = Append(@, tap)], t, <<>>)]
    IN  CASE ins.op = "hitTest.loop" ->
                same(step([used(T, t, "_childMtx", 0) EXCEPT !.ret = FALSE], t,
                          <<Ins("hitTest.child", "", 0, Len(s.reg))>>))
          [] ins.op = "hitTest.child" ->
                IF i < 1 \/ i > Len(s.reg) THEN same(step(T, t, <<>>))
                ELSE IF ~isDrawable(s, s.reg[i])
                THEN same(step(used(T, t, "_childMtx", 0), t,
                               <<Ins("hitTest.child", "", 0, i - 1)>>))
                ELSE same(step(used(T, t, "_childMtx", 0), t,
                               <<Ins("processInput", "", s.reg[i], 0),
                                 Ins("hitTest.next", "", 0, i)>>))
          [] ins.op = "hitTest.next" ->
                IF T.ret THEN same(step(T, t, <<>>))
                ELSE same(step(T, t, <<Ins("hitTest.child", "", 0, i - 1)>>))
          [] ins.op = "processInput" ->
                IF ~isDrawable(s, w) \/ ~pointWithin(s.win[w].rect, T.pt[1], T.pt[2])
                THEN same(step([T EXCEPT !.ret = FALSE], t, <<>>))
                ELSE same(step([T EXCEPT !.ret = FALSE], t,
                               ScopeLock("_childMtx", w,
                                         <<Ins("processInput.loop", "", w, 0)>>)
                               \o <<Ins("processInput.own", "", w, 0)>>))
          [] ins.op = "processInput.loop" ->
                same(step(used(T, t, "_childMtx", w), t,
                          <<Ins("processInput.child", "", w, Len(kids))>>))
          [] ins.op = "processInput.child" ->
                IF i < 1 \/ i > Len(kids) THEN same(step(T, t, <<>>))
                ELSE same(step(used(T, t, "_childMtx", w), t,
                               <<Ins("processInput", "", kids[i], 0),
                                 Ins("processInput.next", "", w, i)>>))
          [] ins.op = "processInput.next" ->
                IF T.ret THEN same(step(T, t, <<>>))
                ELSE same(step(T, t, <<Ins("processInput.child", "", w, i - 1)>>))
          [] ins.op = "processInput.own" ->
                IF T.ret THEN same(step(T, t, <<>>))
                ELSE same(step(T, t, ScopeLock("_queueMtx", w,
                                               <<Ins("push.read", "", w, 0),
                                                 Ins("push.write", "", w, 0)>>)))
          [] ins.op = "push.read" ->
                same(step([used(T, t, "_queueMtx", w) EXCEPT
                              !.local[t] = s.win[w].queue], t, <<>>))
          [] ins.op = "push.write" ->
                pushed(queueMessage([s EXCEPT !.win[w].queue = T.local[t]], w,
                                    tap.msg, tap.p1, tap.p2))

\* One instruction of the thread inside render.
renderExec(s, T, ins) ==
    LET t == "render"
        w == ins.w
        i == ins.i
        kids == getChildren(s, w)
        q == T.local[t]
        parent == s.win[w].parent
        same(T1) == [s |-> s, T |-> T1]
        taps == /\ s.win[w].kind = "Button"
                /\ parent # 0
                /\ Head(q).msg = "MSG_INPUT"
                /\ getMsgParamLoWord(Head(q).p1) = INPUT_TAP
        routed(a) ==
            [s |-> [a EXCEPT !.r = FALSE, !.log = <<>>],
             T |-> step([used(T, t, "_queueMtx", w) EXCEPT
                            !.local[t] = <<>>,
                            !.fresh = @ \/ (taps /\ T.owner[<<"_queueMtx", parent>>] # t),
                            !.dispatched[w] = Append(@, Head(q)),
                            !.queued = [v \in Slots |->
                                           @[v] \o pushedTo(a, v, IF v = w THEN Tail(q)
                                                                  ELSE s.win[v].queue)]],
                        t, <<>>)]
    IN  CASE ins.op = "render.child" ->
                IF i > Len(s.reg) THEN same(step(T, t, <<>>))
                ELSE same(step(used(T, t, "_childMtx", 0), t,
                               <<Ins("processQueue", "", s.reg[i], 0),
                                 Ins("render.while", "", s.reg[i], 0),
                                 Ins("render.paint", "", s.reg[i], 0),
                                 Ins("render.child", "", 0, i + 1)>>))
          [] ins.op = "processQueue" ->
                same(step(T, t,
                          ScopeLock("_queueMtx", w,
                                    <<Ins("pop.read", "", w, 0),
                                      Ins("pop.route", "", w, 0)>>
                                    \o ScopeLock("_childMtx", w,
                                                 <<Ins("processQueue.child", "", w, 1)>>)
                                    \o <<Ins("processQueue.return", "", w, 0)>>)))
          [] ins.op = "pop.read" ->
                same(step([used(T, t, "_queueMtx", w) EXCEPT
                              !.local[t] = s.win[w].queue], t, <<>>))
          [] ins.op = "pop.route" ->
                IF q = <<>> THEN same(step(T, t, <<>>))
                ELSE routed(routeMessage([s EXCEPT !.win[w].queue = Tail(q)], w,
                                         Head(q).msg, Head(q).p1, Head(q).p2))
          [] ins.op = "processQueue.child" ->
                IF i > Len(kids) THEN same(step(T, t, <<>>))
                ELSE same(step(used(T, t, "_childMtx", w), t,
                               <<Ins("processQueue", "", kids[i], 0),
                                 Ins("processQueue.child", "", w, i + 1)>>))
          [] ins.op = "processQueue.return" ->
                same(step([used(T, t, "_queueMtx", w) EXCEPT
                              !.more = (s.win[w].queue # <<>>)], t, <<>>))
          [] ins.op = "render.while" ->
                IF T.more
                THEN same(step([T EXCEPT !.more = FALSE], t,
                               <<Ins("processQueue", "", w, 0),
                                 Ins("render.while", "", w, 0)>>))
                ELSE same(step(T, t, <<>>))
          [] ins.op = "render.paint" ->
                [s |-> [renderWindow(s, w) EXCEPT !.r = FALSE, !.log = <<>>],
                 T |-> step(used(T, t, "_childMtx", 0), t, <<>>)]

\* The mutexes the handlers and loops inside one instruction take and give
\* back again: a routed message may queue on the parent and walks the
\* children of the windows it redraws; painting walks the registry and the
\* children of the window.
innerLocks(s, ins) ==
    IF ins.op = "pop.route"
    THEN {<<"_queueMtx", s.win[ins.w].parent>>}
         \cup {<<"_childMtx", v>> : v \in {u \in Slots : s.win[u].used}}
    ELSE IF ins.op = "render.paint"
    THEN {<<"_childMtx", 0>>}
         \cup {<<"_childMtx", v>> : v \in {u \in Slots : s.win[u].used}}
    ELSE {}

\* Thread t can execute its next instruction.
CanStep(s, T, t) ==
    /\ T.todo[t] # <<>>
    /\ Head(T.todo[t]).op = "lock" =>
           Free(T, t, <<Head(T.todo[t]).m, Head(T.todo[t]).w>>)
    /\ \A l \in innerLocks(s, Head(T.todo[t])) : Free(T, t, l)

\* hitTest(x, y) is entered by its thread: the rate limit lets it pass and
\* the screensaver is off, so the call goes on to the loop over the registry.
HitTestCall(x, y) ==
    /\ thr.todo["hit"] = <<>>
    /\ thr.taps < MaxTaps
    /\ ~((now - lastHitTestTime) < minHitTestIntervalMsec)
    /\ ~bitsHigh(wmState, WMS_SSAVER_ENABLED)
    /\ thr' = [thr EXCEPT !.todo["hit"] =
                              ScopeLock("_childMtx", 0, <<Ins("hitTest.loop", "", 0, 0)>>),
                          !.pt = <<x, y>>, !.ret = FALSE, !.taps = @ + 1]
    /\ UNCHANGED <<geoVars, treeVars, wmVars, lastOp>>

\* render() is entered by its thread: the rate limit lets it pass and the
\* screensaver is off, so the call goes on to the loop over the registry
\* (millis() stands at 0 here, so the time the pass notes at its end is the
\* time already noted).
RenderCall ==
    /\ thr.todo["render"] = <<>>
    /\ ~((now - lastRenderTime) < minRenderIntervalMsec)
    /\ ~bitsHigh(wmState, WMS_SSAVER_ENABLED)
    /\ thr' = [thr EXCEPT !.todo["render"] =
                              ScopeLock("_childMtx", 0, <<Ins("render.child", "", 0, 1)>>),
                          !.more = FALSE]
    /\ UNCHANGED <<geoVars, treeVars, wmVars, lastOp>>

\* Thread t takes the mutex it has arrived at.
Acquire(t) ==
    /\ CanStep(World, thr, t)
    /\ Head(thr.todo[t]).op = "lock"
    /\ thr' = step(acquire(thr, t, <<Head(thr.todo[t]).m, Head(thr.todo[t]).w>>), t, <<>>)
    /\ UNCHANGED <<geoVars, treeVars, wmVars, lastOp>>

\* Thread t leaves a scope and gives its mutex back.
Release(t) ==
    /\ CanStep(World, thr, t)
    /\ Head(thr.todo[t]).op = "unlock"
    /\ thr' = step(release(thr, t, <<Head(thr.todo[t]).m, Head(thr.todo[t]).w>>), t, <<>>)
    /\ UNCHANGED <<geoVars, treeVars, wmVars, lastOp>>

\* The thread inside hitTest executes its next instruction.
HitStep ==
    /\ CanStep(World, thr, "hit")
    /\ Head(thr.todo["hit"]).op \notin {"lock", "unlock"}
    /\ win' = hitExec(World, thr, Head(thr.todo["hit"])).s.win
    /\ registry' = hitExec(World, thr, Head(thr.todo["hit"])).s.reg
    /\ thr' = hitExec(World, thr, Head(thr.todo["hit"])).T
    /\ UNCHANGED <<geoVars, wmVars, lastOp>>

\* The thread inside render executes its next instruction.
RenderStep ==
    /\ CanStep(World, thr, "render")
    /\ Head(thr.todo["render"]).op \notin {"lock", "unlock"}
    /\ win' = renderExec(World, thr, Head(thr.todo["render"])).s.win
    /\ registry' = renderExec(World, thr, Head(thr.todo["render"])).s.reg
    /\ thr' = renderExec(World, thr, Head(thr.todo["render"])).T
    /\ UNCHANGED <<geoVars, wmVars, lastOp>>

\* A top-level window, windows and buttons below it in trees up to three
\* deep are created before the threads start; then one thread taps at most
\* MaxTaps times while the other renders again and again.
ThreadsInit == GeoIdle /\ WmInit(0, 0)

ThreadsCreateTopLevel ==
    /\ thr = NoThreads
    /\ registry = <<>>
    /\ CreateWindow(0, freeSlot(World), STY_TOPLEVEL \cup STY_VISIBLE,
                    0, 0, DisplayWidth, DisplayHeight, TRUE)

ThreadsCreateChild ==
    \E parent \in Slots, p \in HitPlacements :
        /\ thr = NoThreads
        /\ CreateWindow(parent, freeSlot(World), STY_CHILD \cup STY_VISIBLE,
                        p[1], p[2], p[3], p[4], TRUE)

ThreadsCreateButton ==
    \E parent \in Slots, p \in HitPlacements :
        /\ thr = NoThreads
        /\ CreateButton(parent, freeSlot(World),
                        STY_CHILD \cup STY_VISIBLE \cup STY_BUTTON,
                        p[1], p[2], p[3], p[4])

ThreadsHitTest == \E p \in HitPoints : HitTestCall(p[1], p[2])

ThreadsAcquire == \E t \in Threads : Acquire(t)

ThreadsRelease == \E t \in Threads : Release(t)

ThreadsNext ==
    \/ ThreadsCreateTopLevel
    \/ ThreadsCreateChild
    \/ ThreadsCreateButton
    \/ ThreadsHitTest
    \/ RenderCall
    \/ ThreadsAcquire
    \/ ThreadsRelease
    \/ HitStep
    \/ RenderStep

SpecThreads == ThreadsInit /\ [][ThreadsNext]_vars

\* Thread t holds mutex m of window w (0: the registry).
Holds(t, m, w) == thr.owner[<<m, w>>] = t

\* No collection and no queue was iterated, read or changed by a thread that
\* did not hold its mutex.
EveryOperationLocked == ~thr.bare

\* A mutex of a window is held only by a thread that holds the registry's
\* mutex and the children mutex of the window's parent: the mutexes are
\* taken from the root container downward. A thread outside its call holds
\* none.
LockOrder ==
    /\ \A t \in Threads, w \in Slots, m \in Mutexes :
           Holds(t, m, w) =>
               /\ Holds(t, "_childMtx", 0)
               /\ win[w].parent # 0 => Holds(t, "_childMtx", win[w].parent)
    /\ \A t \in Threads, l \in LockIds :
           thr.owner[l] = t => thr.todo[t] # <<>>
    /\ \A l \in LockIds : (thr.owner[l] = "none") <=> (thr.count[l] = 0)

\* While a thread is inside its call, some thread can execute its next
\* instruction.
NoDeadlock ==
    (\E t \in Threads : thr.todo[t] # <<>>) =>
        \E t \in Threads : CanStep(World, thr, t)

\* What was pushed to a window's queue is what was popped from it followed
\* by what it holds, in order.
MessagesConserved ==
    \A w \in Slots : thr.queued[w] = thr.dispatched[w] \o win[w].queue

\* C40: with one thread inside hitTest and another inside render in a build
\* with mutexes, every use of a child collection or a message queue is made
\* by a thread holding that object's mutex; the mutexes are taken from the
\* registry downward and a button that queues on its parent finds the
\* parent's queue mutex already held by its own thread; the two threads never
\* wait for each other; and every message pushed to a queue is popped once,
\* in order, or is still in the queue.
C40_LockedNoDeadlockNoLoss ==
    /\ EveryOperationLocked
    /\ LockOrder
    /\ ~thr.fresh
    /\ NoDeadlock
    /\ MessagesConserved

\* Both threads are inside their calls: the rendering thread has routed a tap
\* to a button, which queued its event on the parent, and the tapping thread
\* waits for the registry's mutex, which the rendering thread holds.
C40_Witness ==
    \E w \in Slots :
        /\ win[w].used
        /\ win[w].kind = "Button"
        /\ thr.dispatched[w] # <<>>
        /\ \E i \in DOMAIN thr.queued[win[w].parent] :
               thr.queued[win[w].parent][i].msg = "MSG_EVENT"
        /\ thr.todo["render"] # <<>>
        /\ thr.todo["hit"] # <<>>
        /\ Head(thr.todo["hit"]).op = "lock"
        /\ Holds("render", "_childMtx", 0)

====
